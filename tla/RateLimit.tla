----------------------------- MODULE RateLimit ------------------------------
(***************************************************************************)
(* Guessing a secret against the persistent rate limit of the table        *)
(* security_bans: the extraction code of a share in verifyShare, counted   *)
(* per client and per share, or a password in login, counted per client    *)
(* only.                                                                   *)
(*                                                                         *)
(* The handlers ask whether a scope is banned, check the secret, and then  *)
(* record a failure or clear the record, each in a transaction of its own, *)
(* so any number of requests can be past the first question when the ban   *)
(* falls.  The module counts what that is worth.                           *)
(***************************************************************************)
EXTENDS Integers, FiniteSets

CONSTANTS
    Client,         \* client addresses
    Share,          \* the scope all clients share; {} models login
                    \* (whose bans do not escalate: LongBan = Ban)
    Request,        \* requests the server handles at a time
    None,
    ClientLimit, ShareLimit,    \* failures that set a ban
    Window,         \* failures are counted in windows of this length
    Ban, LongBan,   \* length of a ban, and from ...
    EscalateAfter,  \* ... this many bans of a client on, its length
    History,        \* bans are counted for this long (24 hours)
    MaxTime         \* bound on the clock

ASSUME LimitAssumption ==
    /\ IsFiniteSet(Request)
    /\ Client \cap Share = {}
    /\ None \notin Client
    /\ {ClientLimit, ShareLimit, Ban, LongBan, Window, History, EscalateAfter}
         \subseteq Nat \ {0}
    /\ Ban <= LongBan
    /\ MaxTime \in Nat

Scope == Client \cup Share
Limit(k) == IF k \in Client THEN ClientLimit ELSE ShareLimit

VARIABLES
    now,         \* the clock
    row,         \* security_bans by scope
    from,        \* the client of a request
    stage,       \* how far a request is
    guesses      \* failures recorded towards one ban, those during it included

limitVars == <<now, row, from, stage, guesses>>

(* No row: counters at zero, windows that start with the first failure.    *)
NoRecord == [failures |-> 0, since |-> None, bans |-> 0, first |-> None, until |-> 0]

LimitTypeOK ==
    /\ now \in 0..MaxTime
    /\ \A k \in Scope :
          \/ row[k] = NoRecord
          \/ /\ row[k].failures \in 0..(Limit(k) - 1)
             /\ row[k].since \in 0..now
             /\ row[k].first \in 0..now
             /\ row[k].bans \in Nat
             /\ row[k].until \in 0..(now + LongBan)
    /\ from \in [Request -> Client \cup {None}]
    /\ stage \in [Request ->
            {"idle", "asked", "admitted", "right", "wrong", "counted"}]
    /\ guesses \in [Scope -> Nat]

LimitInit ==
    /\ now = 0
    /\ row = [k \in Scope |-> NoRecord]
    /\ from = [r \in Request |-> None]
    /\ stage = [r \in Request |-> "idle"]
    /\ guesses = [k \in Scope |-> 0]

-----------------------------------------------------------------------------
Banned(k) == row[k].until > now

(* The window of the failures, or that of the bans, is over.               *)
Over(start, length) == start = None \/ now - start >= length

(* Mutant: reaching the limit sets the ban but keeps the failures.         *)
CountedOn(k) ==
    LET failures == (IF Over(row[k].since, Window) THEN 0 ELSE row[k].failures) + 1
    IN  [row[k] EXCEPT !.failures = failures, !.since = now, !.first = now,
                       !.until = IF failures >= Limit(k) THEN now + Ban ELSE 0]

(* The row RecordFailure writes for a scope that is not banned.            *)
Counted(k) ==
    LET old == row[k]
        fresh == Over(old.since, Window)
        forgotten == Over(old.first, History)
        failures == (IF fresh THEN 0 ELSE old.failures) + 1
        bans == IF forgotten THEN 0 ELSE old.bans
        full == failures >= Limit(k)
        length == IF k \in Client /\ bans + 1 >= EscalateAfter THEN LongBan ELSE Ban
    IN  [failures |-> IF full THEN 0 ELSE failures,
         since    |-> IF fresh \/ full THEN now ELSE old.since,
         bans     |-> IF full THEN bans + 1 ELSE bans,
         first    |-> IF forgotten THEN now ELSE old.first,
         until    |-> IF full THEN now + length ELSE 0]

(* This failure counts towards the same ban as the ones before it.         *)
SameCount(k) ==
    Banned(k) \/ (row[k].until = 0 /\ ~Over(row[k].since, Window))

Tally(k) ==
    guesses' = [guesses EXCEPT ![k] = IF SameCount(k) THEN @ + 1 ELSE 1]

(* Mutant: a failure that arrives during a ban is counted like any other.  *)
RecordFailureAnyway(k) ==
    /\ row' = [row EXCEPT ![k] = Counted(k)]
    /\ Tally(k)

(* During a ban RecordFailure only answers how long it still lasts.        *)
RecordFailure(k) ==
    /\ row' = IF Banned(k) THEN row ELSE [row EXCEPT ![k] = Counted(k)]
    /\ Tally(k)

ClearFailures(k) ==
    /\ row' = [row EXCEPT ![k] = NoRecord]
    /\ guesses' = [guesses EXCEPT ![k] = 0]

-----------------------------------------------------------------------------
Goes(r, a, b) ==
    /\ stage[r] = a
    /\ stage' = [stage EXCEPT ![r] = b]
    /\ UNCHANGED now

(* BanRemaining for the client, then for the share.                        *)
AskClient(r, c) ==
    /\ Goes(r, "idle", "asked")
    /\ ~Banned(c)
    /\ from' = [from EXCEPT ![r] = c]
    /\ UNCHANGED <<row, guesses>>

(* Mutant: the request is admitted whatever the ban of the share.          *)
AskShareNot(r) ==
    /\ Goes(r, "asked", "admitted")
    /\ UNCHANGED <<row, from, guesses>>

AskShare(r) ==
    /\ Goes(r, "asked", "admitted")
    /\ \A k \in Share : ~Banned(k)
    /\ UNCHANGED <<row, from, guesses>>

(* The secret is compared; nothing of the database changes.                *)
Guess(r, outcome) ==
    /\ Goes(r, "admitted", outcome)
    /\ UNCHANGED <<row, from, guesses>>

CountClient(r) ==
    /\ Goes(r, "wrong", "counted")
    /\ RecordFailure(from[r])
    /\ UNCHANGED from

(* The failure is counted for the share, and the client has its answer.    *)
CountShare(r) ==
    /\ Goes(r, "counted", "idle")
    /\ IF Share = {}
       THEN UNCHANGED <<row, guesses>>
       ELSE \E k \in Share : RecordFailure(k)
    /\ from' = [from EXCEPT ![r] = None]

(* A right secret clears the record of the client alone.                   *)
Welcome(r) ==
    /\ Goes(r, "right", "idle")
    /\ ClearFailures(from[r])
    /\ from' = [from EXCEPT ![r] = None]

(* 429 for a banned scope, a malformed body, or the client or the server   *)
(* goes away: the request ends here, without an answer about the secret.   *)
RequestEnds(r) ==
    /\ stage[r] # "idle"
    /\ stage' = [stage EXCEPT ![r] = "idle"]
    /\ from' = [from EXCEPT ![r] = None]
    /\ UNCHANGED <<now, row, guesses>>

Tick ==
    /\ now < MaxTime
    /\ now' = now + 1
    /\ UNCHANGED <<row, from, stage, guesses>>

LimitStep(r) ==
    \/ \E c \in Client : AskClient(r, c)
    \/ AskShare(r)
    \/ \E outcome \in {"right", "wrong"} : Guess(r, outcome)
    \/ CountClient(r)
    \/ CountShare(r)
    \/ Welcome(r)
    \/ RequestEnds(r)

LimitNext == (\E r \in Request : LimitStep(r)) \/ Tick

LimitSpec == LimitInit /\ [][LimitNext]_limitVars

-----------------------------------------------------------------------------
(* SAFETY                                                                  *)

(* docs/configuration.md, rate limits: however many requests are past the  *)
(* question when a ban falls, the answers given towards one ban are at     *)
(* most the limit and one more for every other request in progress.        *)
GuessesBounded ==
    \A k \in Scope : guesses[k] <= Limit(k) + Cardinality(Request) - 1

BanHolds ==
    \A k \in Scope :
        Banned(k) =>
            \/ row'[k].until = row[k].until
            \/ \E r \in Request : from[r] = k /\ stage[r] = "right"

(* A ban lasts as long as it was set for: failures recorded late neither   *)
(* lift, shorten nor prolong it.  Only a right secret of a request that    *)
(* had been admitted before lifts it, for that client.                     *)
BansHold == [][BanHolds]_limitVars
=============================================================================
