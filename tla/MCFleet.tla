------------------------------ MODULE MCFleet ------------------------------
EXTENDS Fleet
\* A deployment before the refresh table and the key, one with the key, and
\* one that lacks its issuer and its database.
Given == {"MCP_ISSUER", "COGNITO", "MONGODB_URI", "OAUTH_TABLES"}
MCInitialEnv == {Given, Given \cup {"OAUTH_KMS_KEY_ARN"},
                 Given \ {"MCP_ISSUER", "MONGODB_URI"}, Given \ {"OAUTH_TABLES"}}
=============================================================================
