------------------------- MODULE MCRateLimitFilter -------------------------
(* Model-checking instances of RateLimitFilter: one-second ticks, the     *)
(* default one-minute window, API keys and user ids of up to two letters. *)
EXTENDS RateLimitFilter

CONSTANTS noMatch

\* A CRD match on an exact value or a prefix.
Exact(s) == [exact |-> s, prefix |-> << >>]
Prefix(s) == [exact |-> << >>, prefix |-> s]

\* An exact rule, a prefix rule with a larger limit, and a catch-all rule
\* on the user id behind them.
MixedRules ==
  << [basedOn |-> "API_KEY", match |-> Exact(<<"a">>), limit |-> 1],
     [basedOn |-> "API_KEY", match |-> Prefix(<<"a">>), limit |-> 2],
     [basedOn |-> "USER_ID", match |-> noMatch, limit |-> 1] >>
MixedApiKeys == {<< >>, <<"a">>, <<"a", "b">>, <<"b">>}
MixedUsers == {<< >>, <<"u">>}

\* One catch-all rule on the API key, which code and spec read alike.
AnyKeyRules == << [basedOn |-> "API_KEY", match |-> noMatch, limit |-> 1] >>
OneApiKey == {<<"a">>}
NoUser == {<< >>}

\* Calls a second apart, half a window apart, or after a pause past the
\* TTL (5 minutes).
MCDelays == {1, 30, TTL + 1}
MCMaxTime == 2 * (TTL + 1) + 60

=============================================================================
