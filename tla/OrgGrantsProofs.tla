-------------------------- MODULE OrgGrantsProofs --------------------------
(***************************************************************************)
(* What OrgGrants promises holds for any set of organizations and any      *)
(* number of requests and changes.                                         *)
(*                                                                         *)
(* A session is a copy of the request that wrote it, so each promise about *)
(* the session rests on what is known of the request, step by step, while  *)
(* the two collections change under it.                                    *)
(***************************************************************************)
EXTENDS OrgGrants, TLAPS

UnderWay == request.step # "none"

\* A request has consumed its row.
RowIsSpent == UnderWay => row = NoRow

\* Whatever a session may come to be granted was held since the login.
AllHeld ==
    /\ OrgsWereHeld
    /\ request.orgs \subseteq held
    /\ known \subseteq held
    /\ row.orgs \subseteq held
    /\ UnderWay \/ row.live => Entitled(memberships) \subseteq held

\* A request that is still sound and stable goes by the preferred document;
\* a sound one, by some document that there was.
SoundSoFar ==
    /\ SoundIsCurrent
    /\ UnderWay => /\ request.always \subseteq Preferred(users, memberships)
                   /\ Entitled(memberships) \subseteq request.ever
    /\ request.sound /\ request.stable /\ request.step = "by email" => "sub" \notin users
    /\ request.sound /\ request.stable /\ request.step = "memberships" =>
          request.doc = IF "sub" \in users THEN "sub" ELSE "legacy"
    /\ request.sound /\ request.step \in {"persist", "rotate"} =>
          /\ request.orgs \subseteq request.ever
          /\ request.stable => request.always \subseteq request.orgs

\* What was ruled out is nowhere to come back from: neither in a membership,
\* nor in the last-known set while that may still be used.
NoWayBack ==
    /\ RevokedStaysOut
    /\ Entitled(memberships) \cap ruledOut = {}
    /\ request.step \in {"by sub", "by email", "memberships"} => known \cap ruledOut = {}

GrantsInv == TypeOK /\ RowIsSpent /\ AllHeld /\ SoundSoFar /\ NoWayBack
-----------------------------------------------------------------------------
LEMMA NothingGranted == NoRequest.orgs = {} /\ NoRequest.kind = "none"
  BY DEF NoRequest

LEMMA NoRequestType == NoRequest \in Request
  BY DEF NoRequest, Request, Step, Document

\* The organizations of a document are those of some membership.
LEMMA ActiveIsEntitled ==
    ASSUME NEW m, NEW d \in Document
    PROVE  Active(m, d) \subseteq Entitled(m)
  BY DEF Active, Entitled

LEMMA EntitledAreOrgs ==
    ASSUME NEW m, NEW us PROVE Entitled(m) \subseteq Org /\ Preferred(us, m) \subseteq Org
  BY DEF Entitled, Preferred

\* The document that the lookups prefer gives the preferred organizations.
LEMMA PreferredIsActive ==
    ASSUME NEW us, NEW m, NEW d, d = IF "sub" \in us THEN "sub" ELSE "legacy"
    PROVE  Preferred(us, m) \subseteq Active(m, d)
  BY DEF Preferred, Active

LEMMA GrantsInit == Init => GrantsInv
  <1> SUFFICES ASSUME Init PROVE GrantsInv
    OBVIOUS
  <1>1. TypeOK
    BY NoRequestType, GrantsAssumption DEF Init, TypeOK, NoRequest, NoRow
  <1> QED
    BY <1>1 DEF Init, GrantsInv, RowIsSpent, AllHeld, SoundSoFar, NoWayBack, UnderWay,
       OrgsWereHeld, SoundIsCurrent, RevokedStaysOut, NoRequest, NoRow
-----------------------------------------------------------------------------
(* Types.                                                                  *)

LEMMA BeginType ==
    ASSUME TypeOK, NEW kind \in {"login", "refresh"}, Begin(kind),
           row' = NoRow, session' \in Request, held' \in SUBSET Org
    PROVE  TypeOK'
  <1>1. request' \in Request /\ request'.step = "by sub"
    BY NoRequestType, EntitledAreOrgs DEF Begin, NoRequest, Request, Step, Document
  <1>2. known' \in SUBSET Org
    BY DEF TypeOK, Begin
  <1>3. requests' \in 0..MaxRequests
    BY GrantsAssumption DEF TypeOK, Begin
  <1> QED
    BY <1>1, <1>2, <1>3 DEF TypeOK, Begin, NoRow

\* A step of a request that rewrites the record within its type.
LEMMA InRequestType ==
    ASSUME TypeOK, InRequest, request' \in Request,
           request'.step = "memberships" => request'.doc \in Document,
           row' \in [live : BOOLEAN, orgs : SUBSET Org],
           session' \in Request, ruledOut' \in SUBSET Org
    PROVE  TypeOK'
  BY DEF TypeOK, InRequest

LEMMA TypeNext == TypeOK /\ [Next]_vars => TypeOK'
  <1> SUFFICES ASSUME TypeOK, [Next]_vars PROVE TypeOK'
    OBVIOUS
  <1>0. /\ request \in Request /\ session \in Request
        /\ request.step = "memberships" => request.doc \in Document
        /\ row \in [live : BOOLEAN, orgs : SUBSET Org]
        /\ known \in SUBSET Org /\ ruledOut \in SUBSET Org /\ held \in SUBSET Org
        /\ users \subseteq Document
    BY DEF TypeOK
  <1>1. CASE Login
    BY <1>1, BeginType, NoRequestType, EntitledAreOrgs DEF Login
  <1>2. CASE Refresh
    BY <1>0, <1>2, BeginType DEF Refresh
  <1>3. ASSUME NEW fault \in BOOLEAN, GiveUp(fault)
        PROVE  request' \in Request /\ request'.step = "persist"
    <2>1. Fallback \in SUBSET Org /\ (request.fault \/ fault) \in BOOLEAN
      BY <1>0 DEF Fallback
    <2>2. request' = [request EXCEPT !.step = "persist", !.orgs = Fallback, !.sound = FALSE,
                                     !.fault = (request.fault \/ fault)]
      BY <1>3 DEF GiveUp
    <2> QED
      BY <1>0, <2>1, <2>2 DEF Request, Step
  <1>4. CASE FindBySub
    <2>1. /\ request' \in Request
          /\ request'.step = "memberships" => request'.doc \in Document
      BY <1>0, <1>4 DEF FindBySub, Request, Step, Document
    <2> QED
      BY <1>0, <1>4, <2>1, InRequestType DEF FindBySub
  <1>5. CASE FindByEmail
    <2>1. /\ request' \in Request
          /\ request'.step = "memberships" => request'.doc \in Document
      BY <1>0, <1>3, <1>5 DEF FindByEmail, Request, Step, Document
    <2> QED
      BY <1>0, <1>5, <2>1, InRequestType DEF FindByEmail
  <1>6. CASE ReadMemberships
    <2>1. request' \in Request /\ request'.step = "persist"
      <3>1. ASSUME NEW part \in SUBSET Org, NEW sound \in BOOLEAN, NEW fault \in BOOLEAN,
                   request' = [request EXCEPT !.step = "persist", !.orgs = part,
                                              !.sound = sound, !.fault = fault]
            PROVE  request' \in Request /\ request'.step = "persist"
        BY <1>0, <3>1 DEF Request, Step
      <3>2. Active(memberships, request.doc) \subseteq Org
        BY DEF Active
      <3>3. CASE request' = [request EXCEPT !.step = "persist",
                                            !.orgs = Active(memberships, request.doc)]
        BY <1>0, <3>2, <3>3 DEF Request, Step
      <3> QED
        BY <1>3, <1>6, <3>1, <3>2, <3>3 DEF ReadMemberships
    <2>2. ruledOut' \in SUBSET Org
      BY <1>0, <1>6 DEF ReadMemberships
    <2> QED
      BY <1>0, <1>6, <2>1, <2>2, InRequestType DEF ReadMemberships
  <1>7. CASE Persist
    <2>1. request' \in Request /\ request'.step = "rotate"
      BY <1>0, <1>7 DEF Persist, Request, Step
    <2> QED
      BY <1>0, <1>7, <2>1, InRequestType DEF Persist
  <1>8. CASE Rotate
    <2>1. row' \in [live : BOOLEAN, orgs : SUBSET Org]
      <3>1. request.orgs \in SUBSET Org
        BY <1>0 DEF Request
      <3>2. row' = [live |-> TRUE, orgs |-> request.orgs] \/ row' = NoRow
        BY <1>8 DEF Rotate
      <3>3. [live |-> TRUE, orgs |-> request.orgs] \in [live : BOOLEAN, orgs : SUBSET Org]
        BY <3>1, Zenon
      <3>4. NoRow \in [live : BOOLEAN, orgs : SUBSET Org]
        BY Zenon DEF NoRow
      <3> QED
        BY <3>2, <3>3, <3>4
    <2> QED
      BY <1>0, <1>8, <2>1, NoRequestType, InRequestType DEF Rotate, NoRequest
  <1>9. CASE Abandon
    BY <1>0, <1>9, NoRequestType, InRequestType DEF Abandon, NoRequest
  <1>10. CASE Change
    <2>1. memberships' \in [Document -> [Org -> Status]] /\ users' \in SUBSET Document
      BY <1>10 DEF Change, TypeOK
    <2>2. request' \in Request /\ request'.step = request.step /\ request'.doc = request.doc
      <3>1. CASE request = NoRequest
        BY <1>0, <1>10, <3>1 DEF Change
      <3>2. CASE request # NoRequest
        BY <1>0, <1>10, <3>2, EntitledAreOrgs DEF Change, Request
      <3> QED
        BY <3>1, <3>2
    <2>3. held' \in SUBSET Org /\ ruledOut' \in SUBSET Org
      BY <1>0, <1>10, EntitledAreOrgs DEF Change
    <2>4. changes' \in 0..MaxChanges
      BY <1>10, GrantsAssumption DEF Change, TypeOK
    <2> QED
      BY <1>0, <1>10, <2>1, <2>2, <2>3, <2>4 DEF Change, TypeOK
  <1>11. CASE UNCHANGED vars
    BY <1>11 DEF TypeOK, vars
  <1> QED
    BY <1>1, <1>2, <1>4, <1>5, <1>6, <1>7, <1>8, <1>9, <1>10, <1>11 DEF Next
-----------------------------------------------------------------------------
(* What the rest of the invariant says of each action.                     *)

\* A request that begins: nothing is known of the collections yet.
LEMMA BeginHolds ==
    ASSUME GrantsInv, NEW kind \in {"login", "refresh"}, Begin(kind), row' = NoRow,
           kind = "login" => held' = Entitled(memberships) /\ session' = NoRequest,
           kind = "refresh" => row.live /\ held' = held /\ session' = session
    PROVE  (RowIsSpent /\ AllHeld /\ SoundSoFar /\ NoWayBack)'
  <1>1. /\ request'.step = "by sub" /\ request'.orgs = {}
        /\ request'.ever = Entitled(memberships)
        /\ request'.always = Preferred(users, memberships)
        /\ known' = IF kind = "refresh" THEN row.orgs ELSE {}
        /\ users' = users /\ memberships' = memberships /\ ruledOut' = ruledOut
    BY DEF Begin, NoRequest
  <1>2. row'.orgs = {} /\ ~row'.live
    BY DEF NoRow
  <1>3. RowIsSpent'
    BY DEF RowIsSpent
  <1>4. AllHeld'
    <2>1. CASE kind = "login"
      BY <1>1, <1>2, <2>1, NothingGranted DEF AllHeld, OrgsWereHeld
    <2>2. CASE kind = "refresh"
      BY <1>1, <1>2, <2>2 DEF GrantsInv, AllHeld, OrgsWereHeld
    <2> QED
      BY <2>1, <2>2
  <1>5. SoundSoFar'
    <2>1. SoundIsCurrent'
      <3>1. CASE session' = NoRequest
        BY <3>1, NothingGranted DEF SoundIsCurrent
      <3>2. CASE session' = session
        BY <3>2 DEF GrantsInv, SoundSoFar, SoundIsCurrent
      <3> QED
        BY <3>1, <3>2
    <2> QED
      BY <1>1, <2>1 DEF SoundSoFar
  <1>6. NoWayBack'
    BY <1>1, <1>2 DEF GrantsInv, NoWayBack, RevokedStaysOut
  <1> QED
    BY <1>3, <1>4, <1>5, <1>6

\* A lookup: the organizations wait for the memberships.
LEMMA LookupHolds ==
    ASSUME GrantsInv, InRequest, UNCHANGED <<row, session, ruledOut>>,
           UnderWay, request'.step \in {"by email", "memberships"},
           request.step \in {"by sub", "by email"},
           request'.orgs = request.orgs, request'.ever = request.ever,
           request'.always = request.always, request'.stable = request.stable,
           request'.sound /\ request.stable /\ request'.step = "by email" => "sub" \notin users,
           request'.sound /\ request.stable /\ request'.step = "memberships" =>
              request'.doc = IF "sub" \in users THEN "sub" ELSE "legacy"
    PROVE  (RowIsSpent /\ AllHeld /\ SoundSoFar /\ NoWayBack)'
  <1>1. RowIsSpent' /\ AllHeld'
    BY DEF GrantsInv, RowIsSpent, AllHeld, OrgsWereHeld, UnderWay, InRequest
  <1>2. SoundSoFar'
    BY DEF GrantsInv, SoundSoFar, SoundIsCurrent, UnderWay, InRequest
  <1>3. NoWayBack'
    BY DEF GrantsInv, NoWayBack, RevokedStaysOut, InRequest
  <1> QED
    BY <1>1, <1>2, <1>3

\* A resolution ends: with organizations that are held, that were not ruled
\* out before, and that are right if it is still sound.
LEMMA ResolvedHolds ==
    ASSUME GrantsInv, InRequest, UNCHANGED <<row, session>>, UnderWay,
           request'.step = "persist", request'.ever = request.ever,
           request'.always = request.always, request'.stable = request.stable,
           request'.orgs \subseteq held,
           request'.orgs \cap ruledOut' = {},
           Entitled(memberships) \cap ruledOut' = {},
           request'.sound =>
              /\ request'.orgs \subseteq request'.ever
              /\ request'.stable => request'.always \subseteq request'.orgs
    PROVE  (RowIsSpent /\ AllHeld /\ SoundSoFar /\ NoWayBack)'
  <1>1. RowIsSpent' /\ AllHeld'
    BY DEF GrantsInv, RowIsSpent, AllHeld, OrgsWereHeld, UnderWay, InRequest
  <1>2. SoundSoFar'
    BY DEF GrantsInv, SoundSoFar, SoundIsCurrent, UnderWay, InRequest
  <1>3. NoWayBack'
    <2>1. row = NoRow
      BY DEF GrantsInv, RowIsSpent
    <2>2. row'.orgs = {}
      BY <2>1 DEF NoRow
    <2> QED
      BY <2>2 DEF NoWayBack, RevokedStaysOut, InRequest
  <1> QED
    BY <1>1, <1>2, <1>3

\* The fallback is held, and was not ruled out when it is still of use.
LEMMA GiveUpHolds ==
    ASSUME GrantsInv, InRequest, UNCHANGED <<row, session, ruledOut>>,
           NEW fault \in BOOLEAN, GiveUp(fault),
           request.step \in {"by email", "memberships"}
    PROVE  (RowIsSpent /\ AllHeld /\ SoundSoFar /\ NoWayBack)'
  <1>1. /\ request'.step = "persist" /\ request'.ever = request.ever
        /\ request'.always = request.always /\ request'.orgs = Fallback
        /\ request'.sound = FALSE /\ request'.stable = request.stable
    BY DEF GiveUp, GrantsInv, TypeOK, Request
  <1>2. Fallback \subseteq known
    BY DEF Fallback
  <1> QED
    BY <1>1, <1>2, ResolvedHolds DEF GrantsInv, AllHeld, NoWayBack, UnderWay

LEMMA FindBySubHolds ==
    ASSUME GrantsInv, FindBySub
    PROVE  (RowIsSpent /\ AllHeld /\ SoundSoFar /\ NoWayBack)'
  <1>0. request \in Request /\ UnderWay
    BY DEF GrantsInv, TypeOK, FindBySub, UnderWay
  <1>1. ASSUME NEW doc, "sub" \in users, doc = "sub",
               request' = [request EXCEPT !.step = "memberships", !.doc = doc]
        PROVE  (RowIsSpent /\ AllHeld /\ SoundSoFar /\ NoWayBack)'
    BY <1>0, <1>1, LookupHolds DEF FindBySub, Request
  <1>2. ASSUME "sub" \notin users, request' = [request EXCEPT !.step = "by email"]
        PROVE  (RowIsSpent /\ AllHeld /\ SoundSoFar /\ NoWayBack)'
    BY <1>0, <1>2, LookupHolds DEF FindBySub, Request
  <1>3. ASSUME request' = [request EXCEPT !.step = "by email", !.sound = FALSE, !.fault = TRUE]
        PROVE  (RowIsSpent /\ AllHeld /\ SoundSoFar /\ NoWayBack)'
    <2>1. /\ request'.step = "by email" /\ request'.orgs = request.orgs
          /\ request'.ever = request.ever /\ request'.always = request.always
          /\ request'.stable = request.stable
      BY <1>0, <1>3 DEF Request
    <2>2. request'.sound = FALSE
      BY <1>0, <1>3 DEF Request
    <2> QED
      BY <1>0, <2>1, <2>2, LookupHolds DEF FindBySub
  <1> QED
    BY <1>1, <1>2, <1>3 DEF FindBySub

LEMMA FindByEmailHolds ==
    ASSUME GrantsInv, FindByEmail
    PROVE  (RowIsSpent /\ AllHeld /\ SoundSoFar /\ NoWayBack)'
  <1>0. request \in Request /\ UnderWay /\ users \subseteq {"sub", "legacy"}
    BY DEF GrantsInv, TypeOK, FindByEmail, UnderWay, Document
  <1>1. ASSUME NEW d \in users,
               request' = [request EXCEPT !.step = "memberships", !.doc = d]
        PROVE  (RowIsSpent /\ AllHeld /\ SoundSoFar /\ NoWayBack)'
    <2>1. /\ request'.step = "memberships" /\ request'.doc = d
          /\ request'.orgs = request.orgs /\ request'.sound = request.sound
          /\ request'.stable = request.stable
          /\ request'.ever = request.ever /\ request'.always = request.always
      BY <1>0, <1>1 DEF Request
    <2>2. request.sound /\ request.stable => "sub" \notin users
      BY DEF GrantsInv, SoundSoFar, FindByEmail
    <2>3. request'.sound /\ request.stable => d = "legacy" /\ "sub" \notin users
      BY <1>0, <1>1, <2>1, <2>2
    <2> QED
      BY <1>0, <2>1, <2>3, LookupHolds DEF FindByEmail
  <1>2. ASSUME NEW fault \in BOOLEAN, GiveUp(fault)
        PROVE  (RowIsSpent /\ AllHeld /\ SoundSoFar /\ NoWayBack)'
    BY <1>0, <1>2, GiveUpHolds DEF FindByEmail
  <1> QED
    BY <1>1, <1>2 DEF FindByEmail

LEMMA ReadMembershipsHolds ==
    ASSUME GrantsInv, ReadMemberships
    PROVE  (RowIsSpent /\ AllHeld /\ SoundSoFar /\ NoWayBack)'
  <1> DEFINE active == Active(memberships, request.doc)
  <1>0. /\ request \in Request /\ UnderWay /\ InRequest /\ UNCHANGED <<row, session>>
        /\ Entitled(memberships) \subseteq held
        /\ Entitled(memberships) \cap ruledOut = {}
        /\ request.always \subseteq Preferred(users, memberships)
        /\ Entitled(memberships) \subseteq request.ever
    BY DEF GrantsInv, TypeOK, ReadMemberships, UnderWay, AllHeld, SoundSoFar, NoWayBack
  <1>1. active \subseteq Entitled(memberships)
    BY ActiveIsEntitled DEF GrantsInv, TypeOK, ReadMemberships
  <1>2. request.sound /\ request.stable => request.always \subseteq active
    BY <1>0, PreferredIsActive DEF GrantsInv, SoundSoFar, ReadMemberships
  <1>3. ASSUME request' = [request EXCEPT !.step = "persist", !.orgs = active],
               ruledOut' = IF request.sound THEN Org \ Entitled(memberships) ELSE ruledOut
        PROVE  (RowIsSpent /\ AllHeld /\ SoundSoFar /\ NoWayBack)'
    <2>1. /\ request'.step = "persist" /\ request'.orgs = active
          /\ request'.sound = request.sound /\ request'.stable = request.stable
          /\ request'.ever = request.ever /\ request'.always = request.always
      BY <1>0, <1>3 DEF Request
    <2>2. Entitled(memberships) \cap ruledOut' = {}
      BY <1>0, <1>3
    <2> HIDE DEF active
    <2> QED
      BY <1>0, <1>1, <1>2, <2>1, <2>2, ResolvedHolds
  <1>4. ASSUME NEW part \in SUBSET active, UNCHANGED ruledOut,
               request' = [request EXCEPT !.step = "persist", !.orgs = part,
                                          !.sound = FALSE, !.fault = TRUE]
        PROVE  (RowIsSpent /\ AllHeld /\ SoundSoFar /\ NoWayBack)'
    <2>1. /\ request'.step = "persist" /\ request'.orgs = part
          /\ request'.stable = request.stable
          /\ request'.ever = request.ever /\ request'.always = request.always
      BY <1>0, <1>4 DEF Request
    <2>2. request'.sound = FALSE
      BY <1>0, <1>4 DEF Request
    <2> HIDE DEF active
    <2> QED
      BY <1>0, <1>1, <1>4, <2>1, <2>2, ResolvedHolds
  <1>5. ASSUME NEW fault \in BOOLEAN, GiveUp(fault), UNCHANGED ruledOut
        PROVE  (RowIsSpent /\ AllHeld /\ SoundSoFar /\ NoWayBack)'
    BY <1>0, <1>5, GiveUpHolds DEF ReadMemberships
  <1> QED
    BY <1>3, <1>4, <1>5 DEF ReadMemberships

\* The session is the request that writes it, so it inherits what holds of it.
LEMMA PersistHolds ==
    ASSUME GrantsInv, Persist
    PROVE  (RowIsSpent /\ AllHeld /\ SoundSoFar /\ NoWayBack)'
  <1>0. /\ request \in Request /\ UnderWay /\ InRequest
        /\ UNCHANGED <<row, ruledOut>>
    BY DEF GrantsInv, TypeOK, Persist, UnderWay
  <1>1. /\ request'.step = "rotate" /\ request'.orgs = request.orgs
        /\ request'.sound = request.sound /\ request'.stable = request.stable
        /\ request'.ever = request.ever /\ request'.always = request.always
    BY <1>0 DEF Persist, Request
  <1>2. RowIsSpent' /\ NoWayBack'
    BY <1>0, <1>1 DEF GrantsInv, RowIsSpent, NoWayBack, RevokedStaysOut, InRequest
  <1>3. /\ session' = session \/ session' = request
        /\ request.orgs \subseteq held
        /\ request.sound =>
              /\ request.orgs \subseteq request.ever
              /\ request.stable => request.always \subseteq request.orgs
    BY DEF GrantsInv, AllHeld, SoundSoFar, Persist
  <1>4. OrgsWereHeld' /\ SoundIsCurrent'
    <2>1. CASE session' = session
      BY <1>0, <2>1 DEF GrantsInv, AllHeld, SoundSoFar, OrgsWereHeld, SoundIsCurrent, InRequest
    <2>2. CASE session' = request
      BY <1>0, <1>3, <2>2 DEF OrgsWereHeld, SoundIsCurrent, InRequest
    <2> QED
      BY <1>3, <2>1, <2>2
  <1>5. AllHeld'
    BY <1>0, <1>1, <1>4 DEF GrantsInv, AllHeld, UnderWay, InRequest
  <1>6. SoundSoFar'
    BY <1>0, <1>1, <1>3, <1>4 DEF GrantsInv, SoundSoFar, UnderWay, InRequest
  <1> QED
    BY <1>2, <1>5, <1>6

\* A request that ends, in a rotated row or without one.
LEMMA EndHolds ==
    ASSUME GrantsInv, Rotate \/ Abandon
    PROVE  (RowIsSpent /\ AllHeld /\ SoundSoFar /\ NoWayBack)'
  <1>0. /\ InRequest /\ UNCHANGED <<session, ruledOut>>
        /\ request' = NoRequest
    BY DEF Rotate, Abandon
  <1>1. request'.step = "none" /\ request'.orgs = {}
    BY <1>0 DEF NoRequest
  <1>2. /\ row'.orgs \subseteq row.orgs \cup request.orgs
        /\ row' = row \/ UnderWay \/ ~row'.live
    BY DEF Rotate, Abandon, NoRow, UnderWay
  <1>3. RowIsSpent'
    BY <1>1 DEF RowIsSpent, UnderWay
  <1>4. AllHeld'
    BY <1>0, <1>1, <1>2 DEF GrantsInv, AllHeld, OrgsWereHeld, UnderWay, InRequest
  <1>5. SoundSoFar'
    BY <1>0, <1>1 DEF GrantsInv, SoundSoFar, SoundIsCurrent, UnderWay
  <1>6. NoWayBack'
    BY <1>0, <1>1, <1>2 DEF GrantsInv, NoWayBack, RevokedStaysOut, InRequest
  <1> QED
    BY <1>3, <1>4, <1>5, <1>6

\* The collections change under the request: what is held grows, what was
\* ruled out shrinks, and a request that lost its document is stable no more.
LEMMA ChangeHolds ==
    ASSUME GrantsInv, Change
    PROVE  (RowIsSpent /\ AllHeld /\ SoundSoFar /\ NoWayBack)'
  <1> DEFINE entitled == Entitled(memberships')
             preferred == Preferred(users', memberships')
  <1>0. /\ request \in Request /\ UNCHANGED <<row, session, known>>
        /\ held' = held \cup entitled /\ ruledOut' = ruledOut \ entitled
        /\ Entitled(memberships)' = entitled
        /\ Preferred(users, memberships)' = preferred
    BY DEF GrantsInv, TypeOK, Change
  <1>1. /\ request'.step = request.step /\ request'.doc = request.doc
        /\ request'.orgs = request.orgs
        /\ request.ever \subseteq request'.ever
        /\ request'.always \subseteq request.always
        /\ UnderWay => request'.always \subseteq preferred /\ entitled \subseteq request'.ever
    <2>1. CASE request = NoRequest
      BY <2>1 DEF Change, UnderWay, NoRequest
    <2>2. CASE request # NoRequest
      BY <1>0, <2>2 DEF Change, Request
    <2> QED
      BY <2>1, <2>2
  <1>2. UnderWay => /\ request'.sound => request.sound
                    /\ request'.stable => request.stable /\ users' = users
    <2>1. UnderWay => request # NoRequest
      BY DEF UnderWay, NoRequest
    <2>2. request # NoRequest => /\ request'.sound = request.sound
                                 /\ request'.stable = (request.stable /\ users' = users)
      BY <1>0, Zenon DEF Change, Request
    <2> QED
      BY <2>1, <2>2
  <1> HIDE DEF entitled, preferred
  <1>3. RowIsSpent'
    BY <1>0, <1>1 DEF GrantsInv, RowIsSpent, UnderWay
  <1>4. AllHeld'
    BY <1>0, <1>1 DEF GrantsInv, AllHeld, OrgsWereHeld
  <1>5. SoundSoFar'
    BY <1>0, <1>1, <1>2 DEF GrantsInv, SoundSoFar, SoundIsCurrent, UnderWay
  <1>6. NoWayBack'
    BY <1>0, <1>1 DEF GrantsInv, NoWayBack, RevokedStaysOut
  <1> QED
    BY <1>3, <1>4, <1>5, <1>6

LEMMA StutterHolds ==
    ASSUME GrantsInv, UNCHANGED vars
    PROVE  (RowIsSpent /\ AllHeld /\ SoundSoFar /\ NoWayBack)'
  BY DEF GrantsInv, vars, RowIsSpent, AllHeld, SoundSoFar, NoWayBack, UnderWay,
     OrgsWereHeld, SoundIsCurrent, RevokedStaysOut
-----------------------------------------------------------------------------
LEMMA GrantsNext == GrantsInv /\ [Next]_vars => GrantsInv'
  <1> SUFFICES ASSUME GrantsInv, [Next]_vars PROVE GrantsInv'
    OBVIOUS
  <1>1. TypeOK'
    BY TypeNext DEF GrantsInv
  <1>2. ASSUME Login \/ Refresh PROVE (RowIsSpent /\ AllHeld /\ SoundSoFar /\ NoWayBack)'
    BY <1>2, BeginHolds DEF Login, Refresh
  <1>3. (RowIsSpent /\ AllHeld /\ SoundSoFar /\ NoWayBack)'
    BY <1>2, FindBySubHolds, FindByEmailHolds, ReadMembershipsHolds, PersistHolds,
       EndHolds, ChangeHolds, StutterHolds DEF Next
  <1> QED
    BY <1>1, <1>3 DEF GrantsInv

LEMMA GrantsInvariance == Spec => []GrantsInv
  BY GrantsInit, GrantsNext, PTL DEF Spec

\* Every variable keeps its type, and memberships are read for a document
\* that was found.
THEOREM GrantsTypes == Spec => []TypeOK
  BY GrantsInvariance, PTL DEF GrantsInv

\* resolveUserOrgs and its fallback: no session is granted an organization
\* that the person did not hold since the login, whatever fails.
THEOREM NothingIsInvented == Spec => []OrgsWereHeld
  BY GrantsInvariance, PTL DEF GrantsInv, AllHeld

\* resolveUserOrgs without a fault or a fallback: whatever changes in the two
\* collections between its reads, it grants nothing that was not held during
\* the request; and it leaves out nothing that was held throughout, unless the
\* documents of the person changed between the reads.
THEOREM SoundResolutions == Spec => []SoundIsCurrent
  BY GrantsInvariance, PTL DEF GrantsInv, SoundSoFar

\* tokenRefresh: what a sound resolution ruled out is not granted again by a
\* later fallback.
THEOREM RevocationsLast == Spec => []RevokedStaysOut
  BY GrantsInvariance, PTL DEF GrantsInv, NoWayBack
=============================================================================
