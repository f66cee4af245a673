---------------------------------- MODULE Auth ----------------------------------
(***************************************************************************)
(* Pairing and login (src/remote_workstreams/server/auth.py and the routes *)
(* of server/api.py).  Every route runs between two awaits, so a request   *)
(* is one step; between a flow's start and its finish anything may happen. *)
(* Challenges are numbered as they are handed out; a device's passkey is   *)
(* named after the pairing that registered it, a session token after the   *)
(* pairing or login that minted it.  Hashing, WebAuthn's own checks and    *)
(* the signature counts it keeps in the rows are left out: a verification  *)
(* succeeds or is refused.                                                 *)
(***************************************************************************)
EXTENDS Naturals, Sequences, FiniteSets

CONSTANTS
  Attempts,      \* LOCKOUT_ATTEMPTS
  Lockout,       \* LOCKOUT_SECONDS, in ticks of the clock, and so the others
  PairingTtl,    \* PAIRING_TTL_SECONDS
  LoginTtl,      \* LOGIN_TTL_SECONDS
  SessionTtl,    \* SESSION_TTL_SECONDS
  MaxClock,      \* bound: ticks
  MaxGuesses,    \* bound: wrong PINs within a lockout's time
  MaxChallenges  \* bound: pairings and logins begun

ASSUME AuthAssumption ==
  /\ {Attempts, Lockout, PairingTtl, LoginTtl, SessionTtl} \subseteq Nat \ {0}
  /\ {MaxClock, MaxGuesses} \subseteq Nat
  /\ MaxChallenges \in Nat \ {0}

VARIABLES
  scale,       \* what the clock ticks in: "minutes" (the flows here) or "seconds" (Approvals)
  clock,
  failures, lockedUntil,
  pairings,    \* PairingManager._pending: the challenge and when it was handed out
  logins,      \* LoginManager._pending
  sessions,    \* LoginManager._sessions
  rows,        \* the credentials table, which outlives the server
  history      \* of all runs: wrong PINs, challenges, tokens, revocations

auth == <<scale, clock, failures, lockedUntil, pairings, logins, sessions, rows, history>>

Nothing == [ guesses |-> <<>>,  \* when a wrong PIN was tried, if less than a lockout ago
             begun   |-> 0,     \* challenges handed out
             minted  |-> <<>>,  \* tokens: their challenge, how old it was, the passkey
             barred  |-> {} ]   \* passkeys revoked, and how many tokens there were then

AuthInit ==
  /\ scale \in {"minutes", "seconds"}
  /\ clock = 0 /\ failures = 0 /\ lockedUntil = 0
  /\ pairings = {} /\ logins = {} /\ sessions = {}
  /\ \/ scale = "minutes" /\ rows = {} /\ history = Nothing
     \/ /\ rows = {[key |-> 1, revoked |-> FALSE]}  \* a device paired in an earlier run
        /\ history = [Nothing EXCEPT !.begun = 1]

(* time.time() and the comparisons with it.                                *)
Locked == clock < lockedUntil
Expired(e, ttl) == clock - e.at > ttl
Pruned(pending, ttl) == {e \in pending : ~Expired(e, ttl)}

SessionOk(token) == \E s \in sessions : s.token = token /\ s.expires > clock

Begin(pending, ttl) ==
  Pruned(pending, ttl) \cup {[id |-> history.begun + 1, at |-> clock]}

Begun == [history EXCEPT !.begun = @ + 1]

Mint(e, key) ==
  /\ sessions' = {s \in sessions : s.expires > clock}
                   \cup {[token |-> e.id, expires |-> clock + SessionTtl]}
  /\ history' = [history EXCEPT !.minted = Append(@, [id |-> e.id, key |-> key, age |-> clock - e.at])]

-----------------------------------------------------------------------------
(* The count of failures starts over with a lockout.  WRONG: it locks one  *)
(* failure late.                                                           *)
LocksLate(n) == n > Attempts
Locks(n) == n >= Attempts

(* WRONG: it takes no time.                                                *)
AtOnce == clock
LockEnds == clock + Lockout

(* start with a wrong PIN, or before a PIN is set.                         *)
WrongPin ==
  /\ scale = "minutes" /\ ~Locked /\ Len(history.guesses) < MaxGuesses
  /\ IF Locks(failures + 1)
     THEN failures' = 0 /\ lockedUntil' = LockEnds
     ELSE failures' = failures + 1 /\ UNCHANGED lockedUntil
  /\ history' = [history EXCEPT !.guesses = Append(@, clock)]
  /\ UNCHANGED <<scale, clock, pairings, logins, sessions, rows>>

PairStart ==
  /\ scale = "minutes" /\ ~Locked /\ history.begun < MaxChallenges
  /\ failures' = 0
  /\ pairings' = Begin(pairings, PairingTtl)
  /\ history' = [Begun EXCEPT !.guesses = <<>>]
  /\ UNCHANGED <<scale, clock, lockedUntil, logins, sessions, rows>>

(* finish pops the challenge before anything else.  WRONG: it only reads   *)
(* it.                                                                     *)
Read(pending, e) == pending
Pop(pending, e) == pending \ {e}

PairFinish(e) ==
  /\ ~Expired(e, PairingTtl)
  /\ pairings' = Pop(pairings, e)
  /\ rows' = rows \cup {[key |-> e.id, revoked |-> FALSE]}
  /\ Mint(e, e.id)
  /\ UNCHANGED <<scale, clock, failures, lockedUntil, logins>>

(* The challenge is too old, or the attestation is refused.                *)
PairRefused(e) ==
  /\ pairings' = Pop(pairings, e)
  /\ UNCHANGED <<scale, clock, failures, lockedUntil, logins, sessions, rows, history>>

(* On the scale of seconds there is one phone, which logs in when it must. *)
LoginStart ==
  /\ history.begun < MaxChallenges
  /\ scale = "seconds" => logins = {} /\ sessions = {}
  /\ logins' = Begin(logins, LoginTtl)
  /\ history' = Begun
  /\ UNCHANGED <<scale, clock, failures, lockedUntil, pairings, sessions, rows>>

(* get_passkey, by a passkey some device still holds.                      *)
Passkey(key) == \E r \in rows : r.key = key /\ ~r.revoked

LoginFinish(e, key) ==
  /\ ~Expired(e, LoginTtl) /\ Passkey(key)
  /\ logins' = Pop(logins, e)
  /\ Mint(e, key)
  /\ UNCHANGED <<scale, clock, failures, lockedUntil, pairings, rows>>

LoginRefused(e) ==
  /\ scale = "minutes"
  /\ logins' = Pop(logins, e)
  /\ UNCHANGED <<scale, clock, failures, lockedUntil, pairings, sessions, rows, history>>

(* The route wants a live session, of any device.                          *)
Revoke(r) ==
  /\ scale = "minutes" /\ ~r.revoked
  /\ \E s \in sessions : SessionOk(s.token)
  /\ rows' = (rows \ {r}) \cup {[r EXCEPT !.revoked = TRUE]}
  /\ history' = [history EXCEPT !.barred = @ \cup {[key |-> r.key, after |-> Len(history.minted)]}]
  /\ UNCHANGED <<scale, clock, failures, lockedUntil, pairings, logins, sessions>>

(* The guesses that are less than a lockout old; the oldest come first.    *)
Old(guesses, now) == {i \in DOMAIN guesses : guesses[i] + Lockout <= now}
Recent(guesses, now) == SubSeq(guesses, Cardinality(Old(guesses, now)) + 1, Len(guesses))

TimePasses ==
  /\ scale = "minutes" /\ clock < MaxClock
  /\ clock' = clock + 1
  /\ history' = [history EXCEPT !.guesses = Recent(@, clock + 1)]
  /\ UNCHANGED <<scale, failures, lockedUntil, pairings, logins, sessions, rows>>

(* All but the table is memory of the process, the lockout included.       *)
AuthForgets ==
  /\ failures' = 0 /\ lockedUntil' = 0
  /\ pairings' = {} /\ logins' = {} /\ sessions' = {}
  /\ history' = [history EXCEPT !.guesses = <<>>]
  /\ UNCHANGED <<scale, clock, rows>>
=============================================================================
