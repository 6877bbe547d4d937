------------------------------- MODULE AppToken -------------------------------
(* How the GitHub client of an app puts an installation token on its requests   *)
(* (libs/github/github.go): all requests share one token, which is replaced     *)
(* under a lock when it is about to expire.                                     *)
(*                                                                              *)
(* Time is counted by GitHub's clock; the client's own is off by skew.  The     *)
(* JWT that the request for a token is signed with is left out.                 *)
EXTENDS Integers

CONSTANTS Sender,     \* concurrent requests
          Buffer,     \* how long before its end a token is replaced (5 seconds)
          Life,       \* how long a token is good for
          Skews,      \* differences of the two clocks
          MaxClock

ASSUME TimesAssumption ==
  /\ Buffer \in Nat /\ Life \in Nat /\ MaxClock \in Nat
  /\ Skews \subseteq Int
  /\ Buffer <= Life

VARIABLES time,       \* GitHub's clock
          skew,       \* the client's clock is time + skew
          token,      \* the end of the shared token's life
          lock,       \* callers that have the mutex
          reqAt,      \* reqAt[c]: where request c is
          header,     \* header[c]: the end of the life of the token on request c
          since       \* since[c]: when the token on request c was taken or asked for

tokenVars == <<time, skew, token, lock, reqAt, header, since>>

LocalTime == time + skew

(* NewForApp fetches a token before any request is made.                        *)
TokenInit ==
  /\ time = 0
  /\ skew \in Skews
  /\ token = Life
  /\ lock = {}
  /\ reqAt = [c \in Sender |-> "idle"]
  /\ header = [c \in Sender |-> 0]
  /\ since = [c \in Sender |-> 0]

TokenTick ==
  /\ time < MaxClock
  /\ time' = time + 1
  /\ UNCHANGED <<skew, token, lock, reqAt, header, since>>

RoundTrip(c) ==
  /\ reqAt[c] = "idle"
  /\ reqAt' = [reqAt EXCEPT ![c] = "waiting"]
  /\ UNCHANGED <<time, skew, token, lock, header, since>>

(* A mistake: a token is used up to its end by the client's clock.              *)
NotExpired == LocalTime <= token

GoodEnough == LocalTime <= token - Buffer

Use(c, t) ==
  /\ header' = [header EXCEPT ![c] = t]
  /\ reqAt' = [reqAt EXCEPT ![c] = "sent"]

(* getAccessToken has the lock and looks at the token that there is now ...     *)
TakeToken(c) ==
  /\ reqAt[c] = "waiting" /\ lock = {}
  /\ IF GoodEnough
     THEN Use(c, token) /\ UNCHANGED lock
     ELSE /\ lock' = {c}
          /\ reqAt' = [reqAt EXCEPT ![c] = "creating"]
          /\ UNCHANGED header
  /\ since' = [since EXCEPT ![c] = time]
  /\ UNCHANGED <<time, skew, token>>

(* ... and asks for another one with the lock in hand.  GitHub makes it at some *)
(* time before the answer, which is used whatever time it took; a failure keeps *)
(* the old token.                                                               *)
TokenCreated(c) ==
  /\ reqAt[c] = "creating"
  /\ \E made \in since[c]..time : token' = made + Life
  /\ lock' = {}
  /\ Use(c, token')
  /\ UNCHANGED <<time, skew, since>>

CreationFailed(c) ==
  /\ reqAt[c] = "creating"
  /\ lock' = {}
  /\ reqAt' = [reqAt EXCEPT ![c] = "idle"]
  /\ UNCHANGED <<time, skew, token, header, since>>

Arrive(c) ==
  /\ reqAt[c] = "sent"
  /\ reqAt' = [reqAt EXCEPT ![c] = "idle"]
  /\ UNCHANGED <<time, skew, token, lock, header, since>>

TokenNext ==
  \/ TokenTick
  \/ \E c \in Sender :
       RoundTrip(c) \/ TakeToken(c) \/ TokenCreated(c) \/ CreationFailed(c) \/ Arrive(c)

TokenSpec == TokenInit /\ [][TokenNext]_tokenVars

-------------------------------------------------------------------------------
Abs(n) == IF n < 0 THEN -n ELSE n

(* What is left of the buffer for a request to arrive in.                       *)
Grace == Buffer - Abs(skew)

(* A request arrives with a token that is still good, unless it was under way,  *)
(* counted from its look at the token, for longer than what the difference of   *)
(* the clocks leaves of the buffer: however long it had waited for the lock,    *)
(* and whatever failed before (github.go: "Allow for a small buffer before the  *)
(* token expires to account for clock skew").                                   *)
ArrivesInTime ==
  \A c \in Sender :
    reqAt[c] = "sent" /\ Grace >= 0 /\ time <= since[c] + Grace => time <= header[c]

===============================================================================
