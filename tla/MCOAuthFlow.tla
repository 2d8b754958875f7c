---------------------------- MODULE MCOAuthFlow -----------------------------
(***************************************************************************)
(* Small instances of OAuthFlow.  Each group of definitions below is used  *)
(* by the configuration file it is named after.                            *)
(***************************************************************************)
EXTENDS OAuthFlowProperties, TLC

Key1 == [kid |-> "k1", mat |-> "m1"]
Key2 == [kid |-> "k2", mat |-> "m2"]

NoCookieClient(uris, secret) == [uris |-> uris, secret |-> secret, nonce |-> FALSE]
CookieClient(uris, secret)   == [uris |-> uris, secret |-> secret, nonce |-> TRUE]

ConfigOf(ids, client(_), ring, ttl) ==
    [clients |-> [c \in ids |-> client(c)], ring |-> ring, ttl |-> ttl]

\* Exchange: two clients, one configuration, every envelope in every hand.
ExchangeClient(c) == IF c = "101" THEN NoCookieClient({"uri"}, "s1")
                                 ELSE CookieClient({"uri"}, "s2")
ExchangeConfigs == {ConfigOf({"101", "102"}, ExchangeClient, <<Key1>>, 2)}
ExchangeQueries == {[cid |-> "101", ru |-> "uri", st |-> NoState],
                    [cid |-> "102", ru |-> "uri", st |-> "x"]}
ExchangeCredentials == {[cid |-> "101", secret |-> "s1"],
                        [cid |-> "102", secret |-> "s2"],
                        [cid |-> "101", secret |-> "s2"],
                        [cid |-> "103", secret |-> "s1"]}

\* Reload: a client loses its URI, disappears or starts to ask for the cookie,
\* a secret is rotated, a key is prepended and one dropped, and a restart changes
\* the TTL from one second to one and a half, between and during the steps of one
\* flow.
ReloadConfigs ==
    LET base(c)   == NoCookieClient({"uri"}, "s1")
        moved(c)  == NoCookieClient({"uri2"}, "s2")
        cookie(c) == CookieClient({"uri"}, "s1")
    IN  {ConfigOf({"101"}, base, <<Key1>>, 2),
         ConfigOf({"101"}, moved, <<Key2>>, 2),
         ConfigOf({"101"}, cookie, <<Key2, Key1>>, 2),
         ConfigOf({"101"}, cookie, <<Key1>>, 3),
         ConfigOf({"102"}, base, <<Key1>>, 2)}
ReloadQueries == {[cid |-> "101", ru |-> "uri", st |-> st] : st \in {"x", TooLong}}
ReloadCredentials == {[cid |-> "101", secret |-> s] : s \in {"s1", "s2"}}

\* Nonce: two browsers, flows that share one, a client that asks for the cookie.
NonceConfigs ==
    LET cookie(c) == CookieClient({"uri"}, "s1")
    IN  {ConfigOf({"101"}, cookie, <<Key1>>, 1)}
NoCredentials == {}
NonceQueries == {[cid |-> "101", ru |-> "uri", st |-> "x"]}

\* State: every kind of caller state.
StateQueries == {[cid |-> "101", ru |-> "uri", st |-> st] :
                    st \in {"", "x", NotUTF8, NoState, TooLong}}
                \cup {[cid |-> "101", ru |-> "uri2", st |-> "x"],
                      [cid |-> "103", ru |-> "uri", st |-> "x"]}
StateCredentials == {[cid |-> "101", secret |-> "s1"]}

MCClientIds == {"101", "102", "103"}
MCURIs == {"uri", "uri2"}
MCSecrets == {"s1", "s2"}
MCStates == {"", "x", NotUTF8, Replaced, NoState, TooLong}
MCKIDs == {"k1", "k2"}
MCMaterials == {"m1", "m2"}
SlotSymmetry == Permutations(Slots)
BrowserSymmetry == Permutations(Browsers)
FullSymmetry == SlotSymmetry \cup BrowserSymmetry
=============================================================================
