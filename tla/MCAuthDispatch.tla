---------------------------- MODULE MCAuthDispatch ----------------------------
(* A small instance of AuthDispatch for TLC. *)
EXTENDS AuthDispatch

CONSTANTS alice, robot, x, y, doc

MCTenantOf == [d \in Resources |-> y]
MCConfers == [role \in Roles |-> IF role = "admin" THEN Relations ELSE {"member", "action"}]

Token(signed, kind, sub, tenant, role) ==
    [signed |-> signed, valid |-> TRUE, is_demo |-> signed = "demo", kind |-> kind, sub |-> sub,
     aud |-> IF kind = "service" THEN "bsage" ELSE None,
     scopes |-> IF kind = "service" THEN {"bsage"} ELSE {}, tenant |-> tenant, role |-> role]

Service == Token("service", "service", robot, x, None)

MCTokens == {"session", "raw session", "nobody's", "robot's", "PAT", "service", "odd scopes", "demo"}
MCClaims == [t \in MCTokens |->
    CASE t = "session"     -> Token("user", "session", alice, x, "admin")
      [] t = "raw session" -> Token("user", "session", alice, None, None)
      [] t = "nobody's"    -> Token("user", "session", None, x, None)
      [] t = "robot's"     -> Token("user", "session", robot, x, None)
      [] t = "PAT"         -> Token("service", "pat", alice, y, "viewer")
      [] t = "service"     -> Service
      [] t = "odd scopes"  -> [Service EXCEPT !.scopes = {"bsage", "bsnexus"}]
      [] t = "demo"        -> Token("demo", "session", None, x, None)]

MCConfigs ==
    {[openfga_api_url |-> on, introspection_url |-> on, demo_jwt_secret |-> TRUE,
      service_token_signing_secret |-> TRUE, user_jwt_jwks_url |-> on] : on \in BOOLEAN}

MCInitialTuples == {{}, {<<alice, "viewer", y>>, <<robot, "admin", x>>}}

Ask(token, header, dep, aud, guard) ==
    [token |-> token, header |-> header, resource |-> doc,
     route |-> [dep |-> dep, aud |-> aud, guard |-> guard]]

\* Every kind of token, every dependency and every guard, in the combinations that are
\* told apart.
MCAsks ==
    {Ask("session", y, "get_current_user", None, "permission"),
     Ask("session", None, "combined_principal", "bsage", "admin"),
     Ask("raw session", y, "get_current_user", None, "none"),
     Ask("raw session", None, "get_current_user", None, "mcp"),
     Ask("PAT", None, "get_current_user", None, "resource"),
     Ask("service", y, "combined_principal", "bsage", "permission"),
     Ask("service", None, "ServiceKeyAuth", "bsnexus", "none"),
     Ask("odd scopes", None, "combined_principal", "bsage", "admin"),
     Ask("robot's", y, "combined_principal", "bsage", "admin"),
     Ask("nobody's", None, "get_current_user", None, "none"),
     Ask("demo", y, "combined_principal", "bsage", "permission"),
     Ask(None, None, "get_current_user", None, "none")}
=============================================================================
