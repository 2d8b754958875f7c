------------------------------ MODULE MCRelay -------------------------------
(***************************************************************************)
(* A small instance of Relay: requests of every route, right and wrong     *)
(* credentials, and a reload that rotates the virtual secret and the real  *)
(* pair together.                                                          *)
(***************************************************************************)
EXTENDS RelayProperties

TokenAPI == <<"api", "v3", "oauth", "token">>
Token    == <<"oauth", "token">>
Revoke   == <<"oauth", "revoke">>
Uploads  == <<"api", "v3", "uploads">>

Form(path, id, secret, grant, ticket, owner, idem) ==
    [method |-> "POST", path |-> path, id |-> id, secret |-> secret,
     grant |-> grant, ticket |-> ticket, owner |-> owner, body |-> TRUE,
     idem |-> idem]

Anonymous(method, path, body, idem) ==
    [method |-> method, path |-> path, id |-> NoOne, secret |-> NoOne,
     grant |-> "", ticket |-> NoOne, owner |-> NoOne, body |-> body,
     idem |-> idem]

TokenByGet(path) ==
    [Form(path, "101", "s1", "", NoOne, NoOne, FALSE)
        EXCEPT !.method = "GET", !.body = FALSE]

MCInbound ==
    {Form(TokenAPI, "101", "s1", "authorization_code", "c1", "101", FALSE),
     Form(TokenAPI, "101", "s1", "authorization_code", "c1", NoOne, FALSE),
     Form(Token, "101", "s2", "refresh_token", "t1", NoOne, FALSE),
     Form(Token, "101", "s1", "refresh_token", "t1", NoOne, TRUE),
     Form(Token, "101", "s1", "refresh_token", NoOne, NoOne, FALSE),
     Form(Token, "103", "s1", "refresh_token", "t1", NoOne, FALSE),
     Form(Token, "101", "s1", "device_code", NoOne, NoOne, FALSE),
     Form(Revoke, "101", "s1", "", "t1", NoOne, FALSE),
     Anonymous("POST", <<"oauth", "deauthorize">>, FALSE, TRUE),
     Anonymous("GET", <<"api", "v3", "athlete">>, FALSE, FALSE),
     Anonymous("POST", Uploads, TRUE, TRUE),
     Anonymous("POST", Uploads, FALSE, TRUE),
     TokenByGet(TokenAPI), TokenByGet(Token)}

Real(secret) == [id |-> "app", secret |-> secret]
MCConfigs == {[clients |-> [c \in {"101"} |-> "s1"], real |-> Real("r1")],
              [clients |-> [c \in {"101"} |-> "s2"], real |-> Real("r2")]}
MCStravaApp == Real("r1")
MCServerErrors == {503, 504}

MCClientIds == {"101", "103", "app"}
MCSecrets == {"s1", "s2", "r1", "r2"}
MCGrants == {"authorization_code", "refresh_token", "device_code", ""}
MCTickets == {"c1", "t1"}
=============================================================================
