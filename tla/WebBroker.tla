------------------------------ MODULE WebBroker ------------------------------
(***************************************************************************)
(* The life of a Beam Web Token, across src/packages/web-sdk-server/src    *)
(* (createBeamBroker, mintToken, verifyToken) and the browser that holds   *)
(* it (src/packages/web-sdk/src/core/auth).  The application's authorize() *)
(* decides what a session may do; the token is minted from that answer     *)
(* once the request's body has been read, and nothing is revoked later:    *)
(* what bounds a withdrawn permission is the token's lifetime and how long *)
(* the mint was held up by the body, on which the code puts no limit.      *)
(*                                                                         *)
(* Time is the minting host's clock.  The verifying host and the browser   *)
(* have clocks of their own, `drift' and `skew' ahead of it, and the reply *)
(* of a mint may take any time to arrive.                                  *)
(***************************************************************************)
EXTENDS Integers

CONSTANTS
    Scopes,     \* scopes that routes require
    MinTtl, DefaultTtl, MaxTtl,     \* of token.ts
    Tolerance,  \* clockToleranceSeconds
    Margin,     \* MIN_REFRESH_MARGIN_MS of the browser
    Ttls,       \* ttlSeconds that authorize() asks for, 0 for none
    Drifts,     \* verifying host's clock minus the minting host's
    Skews,      \* browser's clock minus the minting host's
    MaxChanges, \* bound: how often the application changes its mind
    MaxTime     \* bound: how long a behaviour lasts

VARIABLES
    now,        \* the minting host's clock
    drift, skew,
    session,    \* the scopes that authorize() grants now, {} when it refuses
    changes,    \* how often it changed
    lost,       \* [scope |-> when authorize() last stopped granting it]
    granting,   \* handleToken's session: what authorize() answered, and when
    reply,      \* the token on its way to the browser
    token,      \* #token of the browser
    outcome     \* what the browser's last request got, and what it asked for

\* Clocks and lifetimes are seconds, and a tolerance is not negative.
Limits ==
    /\ {MinTtl, DefaultTtl, MaxTtl, Tolerance, MaxTime} \subseteq Nat
    /\ {Margin} \union Ttls \union Drifts \union Skews \subseteq Int

appVars == <<session, changes, lost>>
vars == <<now, drift, skew, appVars, granting, reply, token, outcome>>

NoToken == [scopes |-> {}, at |-> 0, iat |-> 0, exp |-> 0]
NoOutcome == [code |-> "none", scope |-> "none", usable |-> FALSE]
NoSession == [scopes |-> {}, asked |-> 0, at |-> 0]

Init ==
    /\ now = 0 /\ drift \in Drifts /\ skew \in Skews
    /\ session = Scopes /\ changes = 0 /\ lost = [s \in Scopes |-> 0]
    /\ granting = NoSession /\ reply = NoToken /\ token = NoToken /\ outcome = NoOutcome

-----------------------------------------------------------------------------
(* The broker. *)

\* The lifetime: capped, and refused below the minimum.
Ttl(asked) ==
    LET wanted == IF asked = 0 THEN DefaultTtl ELSE asked
    IN  IF wanted > MaxTtl THEN MaxTtl ELSE wanted

\* How long its mint was held up by the request's body.
HeldUp(t) == t.iat - t.at

NotMinted == outcome' = [NoOutcome EXCEPT !.code = "not_minted"] /\ UNCHANGED reply

\* handleToken, up to its first await: authorize() answers; 401 without a session.
HandleToken(asked) ==
    /\ reply = NoToken /\ granting = NoSession
    /\ IF session # {}
       THEN /\ granting' = [scopes |-> session, asked |-> asked, at |-> now]
            /\ UNCHANGED <<reply, outcome>>
       ELSE NotMinted /\ UNCHANGED granting
    /\ UNCHANGED <<now, drift, skew, appVars, token>>

\* The body has arrived: authorize() granted, the browser's request narrows.  400 for a
\* body that is no JSON, 403 without a scope, else a token with the time of now.
MintToken(requested, readable) ==
    LET granted == granting.scopes \intersect requested IN
    /\ granting # NoSession /\ granting' = NoSession
    /\ IF readable /\ granted # {} /\ Ttl(granting.asked) >= MinTtl
       THEN /\ reply' = [scopes |-> granted, at |-> granting.at, iat |-> now,
                         exp |-> now + Ttl(granting.asked)]
            /\ UNCHANGED outcome
       ELSE NotMinted
    /\ UNCHANGED <<now, drift, skew, appVars, token>>

\* verifyToken on a host whose clock is `drift' ahead.
Clock == now + drift
Expired(t) == t.exp + Tolerance <= Clock
IssuedLater(t) == t.iat - Tolerance > Clock
TooLong(t) == t.exp - t.iat > MaxTtl + Tolerance

\* verifyToken, then assertScopes; failure() answers 403 for the scope, else 401.
VerifyToken(t, scope) ==
    CASE t = NoToken                  -> "unauthenticated"
      [] t # NoToken /\ Expired(t)    -> "token_expired"
      [] t # NoToken /\ ~Expired(t) /\ (IssuedLater(t) \/ TooLong(t)) -> "invalid_token"
      [] OTHER -> IF scope \in t.scopes THEN "ok" ELSE "insufficient_scope"

-----------------------------------------------------------------------------
(* The browser. *)

BrowserClock == now + skew
IsTokenUsable(t) == t.exp - BrowserClock > Margin

\* #refresh: a token that is already unusable is an error.
Receive ==
    /\ reply # NoToken
    /\ token' = IF IsTokenUsable(reply) THEN reply ELSE token
    /\ reply' = NoToken /\ outcome' = NoOutcome
    /\ UNCHANGED <<now, drift, skew, appVars, granting>>

\* A request of a route that requires `scope', with a token the browser would use.
Request(scope) ==
    /\ token # NoToken /\ IsTokenUsable(token)
    /\ outcome' = [code |-> VerifyToken(token, scope), scope |-> scope,
                   usable |-> scope \in token.scopes]
    /\ UNCHANGED <<now, drift, skew, appVars, granting, reply, token>>

\* A request with the token however old it is, as a stale page may send it.
LateRequest(scope) ==
    /\ token # NoToken /\ ~IsTokenUsable(token)
    /\ outcome' = [code |-> VerifyToken(token, scope), scope |-> scope,
                   usable |-> FALSE]
    /\ UNCHANGED <<now, drift, skew, appVars, granting, reply, token>>

Invalidate ==
    /\ outcome.code \in {"token_expired", "invalid_token"}
    /\ token' = NoToken /\ outcome' = NoOutcome
    /\ UNCHANGED <<now, drift, skew, appVars, granting, reply>>

-----------------------------------------------------------------------------
(* The application and time. *)

Authorize(scopes) ==
    /\ scopes # session /\ changes < MaxChanges
    /\ changes' = changes + 1
    /\ session' = scopes
    /\ lost' = [s \in Scopes |-> IF s \in session \ scopes THEN now ELSE lost[s]]
    /\ outcome' = NoOutcome
    /\ UNCHANGED <<now, drift, skew, granting, reply, token>>

Tick ==
    /\ now < MaxTime
    /\ now' = now + 1
    /\ outcome' = NoOutcome
    /\ UNCHANGED <<drift, skew, appVars, granting, reply, token>>

Next ==
    \/ \E asked \in Ttls : HandleToken(asked)
    \/ \E requested \in SUBSET Scopes, readable \in BOOLEAN :
         MintToken(requested, readable)
    \/ Receive \/ Invalidate \/ Tick
    \/ \E scope \in Scopes : Request(scope) \/ LateRequest(scope)
    \/ \E scopes \in SUBSET Scopes : Authorize(scopes)

Spec == Init /\ [][Next]_vars

-----------------------------------------------------------------------------
(* Tokens live at least MinTtl and at most MaxTtl, and are minted after      *)
(* authorize() has answered.                                                 *)
Token(t) ==
    t = NoToken \/ (t.exp - t.iat \in MinTtl..MaxTtl /\ t.scopes # {} /\ t.at <= t.iat)
TypeOK ==
    /\ now \in 0..MaxTime /\ session \subseteq Scopes /\ granting.scopes \subseteq Scopes
    /\ Token(reply) /\ Token(token)

(* A permission that the application withdrew is exercised for less than     *)
(* MaxTtl + Tolerance on the verifying host's clock and the time that the    *)
(* mint was held up between authorize()'s answer and the stamping of the     *)
(* token (broker.ts:160-178), whatever lifetime and scopes were asked for    *)
(* and however late the token arrived.                                       *)
RevocationBound ==
    outcome.code = "ok" =>
        \/ outcome.scope \in session
        \/ Clock - lost[outcome.scope] < MaxTtl + Tolerance + HeldUp(token)

(* A token that the browser still uses for a scope it carries is accepted,   *)
(* as long as the clocks differ by no more than the tolerance allows: the    *)
(* browser sends no request that is bound to fail for its age.               *)
UsableIsAccepted ==
    /\ drift >= -Tolerance /\ drift - skew <= Tolerance + Margin
    /\ outcome.usable
    => outcome.code = "ok"

=============================================================================
