----------------------------- MODULE RequestGate -----------------------------
(***************************************************************************)
(* What a request passes before a handler of the gateway serves it: the    *)
(* start of the gateway, the verification of the bearer token, the sliding *)
(* window of the rate limiter, and the second look at the token when the   *)
(* caller's context is established.  A websocket passes it with every      *)
(* message.  Requests run at once and share the limiter; a token may be    *)
(* revoked, or its credential replaced, at any moment.                     *)
(***************************************************************************)
EXTENDS Naturals, Sequences, FiniteSets

CONSTANTS
  Threads,
  Tokens,
  Peers,       \* who a caller without a valid token is taken for: his address
  Who(_),      \* the principal of a token
  Max,         \* max_requests
  Window,      \* window_seconds
  Delay,       \* bound on the time between reading the clock and taking the lock
  Horizon,     \* bound on the time
  None

VARIABLES
  gate,     \* how the gateway was started, or None
  token,    \* what verification would say of each token now
  window,   \* RateLimiter._windows: the admissions of an identity that still count
  request,  \* what each thread is in the middle of
  now,
  entered   \* history: when each identity was admitted, as far back as a window

vars == <<gate, token, window, request, now, entered>>

Ids == Peers \cup {Who(k) : k \in Tokens}

Gate == [remote: BOOLEAN, auth: BOOLEAN]

\* "superseded": signed and not revoked, but its credential has been replaced.
States == {"current", "superseded", "dead"}

Idle == [pc |-> "idle"]

\* id is whom the next check counts, living the history of the token when the
\* request or the message arrived.
Request == {Idle} \cup
  [pc: {"open", "knocking", "arrived", "counting", "admitted", "serving"},
   socket: BOOLEAN, token: Tokens \cup {None}, peer: Peers, id: Ids, stamp: 0 .. Horizon,
   verified: BOOLEAN, living: BOOLEAN]

TypeOK ==
  /\ gate \in Gate \cup {None}
  /\ token \in [Tokens -> States]
  /\ window \in [Ids -> Seq(0 .. Horizon)]
  /\ request \in [Threads -> Request]
  /\ now \in 0 .. Horizon
  /\ entered \in [Ids -> Seq(0 .. Horizon)]

Init ==
  /\ gate = None
  /\ token = [k \in Tokens |-> "current"]
  /\ window = [i \in Ids |-> <<>>]
  /\ request = [t \in Threads |-> Idle]
  /\ now = 0
  /\ entered = [i \in Ids |-> <<>>]

Move(t, r) == request' = [request EXCEPT ![t] = r]

\* A refused request is over; a socket is closed.
End(t) == Move(t, Idle)

-----------------------------------------------------------------------------
(* The start and the tokens.                                               *)

\* build_remote_readiness_report: what is reached from elsewhere must
\* authenticate, with a stable secret, limit its requests and name its origins.
Ready(remote, auth, secret, limited, wildcard) ==
  /\ remote => auth /\ limited /\ ~wildcard
  /\ auth => secret

Start ==
  /\ gate = None
  /\ \E remote, auth, secret, wildcard \in BOOLEAN :
       /\ Ready(remote, auth, secret, TRUE, wildcard)
       /\ gate' = [remote |-> remote, auth |-> auth]
  /\ UNCHANGED <<token, window, request, now, entered>>

\* A revocation, an expiry, or a change of the credential behind the token.
Wither(k) ==
  /\ gate # None
  /\ token[k] # "dead"
  /\ token' = [token EXCEPT ![k] = IF token[k] = "current" THEN "superseded" ELSE "dead"]
  /\ UNCHANGED <<gate, window, request, now, entered>>

Current(k) == k # None /\ token[k] = "current"

\* JWTAuth.verify, which looks at the token alone.
Signed(k) == k # None /\ token[k] # "dead"

Identity(k, peer) == IF Current(k) THEN Who(k) ELSE peer

-----------------------------------------------------------------------------
(* A request, and a message on a socket.                                   *)

Arrive(t) ==
  /\ gate # None /\ request[t] = Idle
  /\ \E k \in Tokens \cup {None}, peer \in Peers :
       Move(t, [pc |-> "arrived", socket |-> FALSE, token |-> k, peer |-> peer, id |-> peer,
                stamp |-> 0, verified |-> FALSE, living |-> Current(k)])
  /\ UNCHANGED <<gate, token, window, now, entered>>

\* websocket_chat accepts the connection on the token's signature.
Open(t) ==
  /\ gate # None /\ request[t] = Idle
  /\ \E k \in Tokens \cup {None}, peer \in Peers :
       /\ gate.auth => Signed(k)
       /\ Move(t, [pc |-> "open", socket |-> TRUE, token |-> k, peer |-> peer,
                   id |-> IF Signed(k) THEN Who(k) ELSE peer,
                   stamp |-> 0, verified |-> FALSE, living |-> FALSE])
  /\ UNCHANGED <<gate, token, window, now, entered>>

\* A message is counted for whom the socket was opened, before anything else.
Message(t) ==
  LET r == request[t] IN
  /\ r.pc = "open"
  /\ Move(t, [r EXCEPT !.pc = "knocking", !.stamp = now, !.living = Current(r.token)])
  /\ UNCHANGED <<gate, token, window, now, entered>>

\* Slip: a socket is not verified again.
SlipVerify(t) ==
  LET r == request[t] IN
  /\ r.pc = "arrived"
  /\ Move(t, [r EXCEPT !.pc = "counting", !.stamp = now,
                       !.id = IF r.socket THEN r.id ELSE Identity(r.token, r.peer),
                       !.verified = IF r.socket THEN r.token # None ELSE Current(r.token)])
  /\ UNCHANGED <<gate, token, window, now, entered>>

\* _verify_current_token, and then check reads the clock.
Verify(t) ==
  LET r == request[t] IN
  /\ r.pc = "arrived"
  /\ Move(t, [r EXCEPT !.pc = "counting", !.id = Identity(r.token, r.peer), !.stamp = now,
                       !.verified = Current(r.token)])
  /\ UNCHANGED <<gate, token, window, now, entered>>

\* Slip: what is just within the window is evicted, too.
SlipEvicted(w, stamp) ==
  LET old == {i \in 1 .. Len(w) : \A j \in 1 .. i : w[j] + Window =< stamp + 1} IN
  SubSeq(w, Cardinality(old) + 1, Len(w))

\* The front of the deque as far as it is expired.
Evicted(w, stamp) ==
  LET old == {i \in 1 .. Len(w) : \A j \in 1 .. i : w[j] + Window =< stamp} IN
  SubSeq(w, Cardinality(old) + 1, Len(w))

\* The history as far back as a window.
Recent(e) ==
  LET past == {i \in 1 .. Len(e) : \A j \in 1 .. i : e[j] + Window =< now} IN
  SubSeq(e, Cardinality(past) + 1, Len(e))

\* RateLimiter.check under its lock, with the time that was read before it.
Count(t, pc, admitted, refused) ==
  LET r == request[t]
      w == Evicted(window[r.id], r.stamp)
  IN
  /\ r.pc = pc
  /\ IF Len(w) < Max
     THEN /\ window' = [window EXCEPT ![r.id] = Append(w, r.stamp)]
          /\ entered' = [entered EXCEPT ![r.id] = Append(Recent(@), now)]
          /\ Move(t, admitted)
     ELSE /\ window' = [window EXCEPT ![r.id] = w]
          /\ Move(t, refused)
          /\ UNCHANGED entered
  /\ UNCHANGED <<gate, token, now>>

\* A socket that is over its limit stays open ...
CountMessage(t) ==
  Count(t, "knocking", [request[t] EXCEPT !.pc = "arrived", !.stamp = 0],
        [request[t] EXCEPT !.pc = "open", !.stamp = 0, !.living = FALSE])

\* ... and is closed when the second count, of the same message, refuses it.
CountRequest(t) ==
  Count(t, "counting", [request[t] EXCEPT !.pc = "admitted", !.stamp = 0], Idle)

\* 401, and the second look of establish_context at a token that was verified.
Establish(t) ==
  LET r == request[t] IN
  /\ r.pc = "admitted"
  /\ IF (gate.auth => r.verified) /\ (r.verified => Signed(r.token))
     THEN Move(t, [r EXCEPT !.pc = "serving"])
     ELSE End(t)
  /\ UNCHANGED <<gate, token, window, now, entered>>

Serve(t) ==
  LET r == request[t] IN
  /\ r.pc = "serving"
  /\ IF r.socket
     THEN Move(t, [r EXCEPT !.pc = "open", !.verified = FALSE, !.living = FALSE])
     ELSE End(t)
  /\ UNCHANGED <<gate, token, window, now, entered>>

\* A peer hangs up.
Close(t) ==
  /\ request[t].pc = "open"
  /\ End(t)
  /\ UNCHANGED <<gate, token, window, now, entered>>

Tick ==
  /\ gate # None
  /\ now < Horizon
  /\ \A t \in Threads : request[t].pc \in {"knocking", "counting"} => now < request[t].stamp + Delay
  /\ now' = now + 1
  /\ UNCHANGED <<gate, token, window, request, entered>>

Next ==
  \/ Start
  \/ Tick
  \/ \E k \in Tokens : Wither(k)
  \/ \E t \in Threads :
       \/ Arrive(t) \/ Open(t) \/ Message(t) \/ Verify(t) \/ CountMessage(t)
       \/ CountRequest(t) \/ Establish(t) \/ Serve(t) \/ Close(t)

Spec == Init /\ [][Next]_vars

-----------------------------------------------------------------------------
(* Properties.                                                             *)

\* However the requests of an identity interleave, and although each reads the
\* clock before it has the lock, no more than Max of them are admitted within a
\* window, less the time the lock was waited for.
WindowHeld ==
  \A i \in Ids : LET e == entered[i] IN
    Cardinality({j \in 1 .. Len(e) : e[j] + Window > e[Len(e)] + Delay}) =< Max

\* Where a token is asked for, and on every gateway that is reached from
\* elsewhere, what is served was sent with a token that was current when it
\* arrived: a socket does not outlive its token.
ServedWereCurrent ==
  \A t \in Threads :
    request[t].pc = "serving" /\ (gate.auth \/ gate.remote) => request[t].living
==============================================================================
