------------------------------ MODULE L2Cache ------------------------------
(***************************************************************************)
(* The Redis client of an instance and its circuit breaker                 *)
(* (internal/infrastructure/cache/l2_redis.go).                            *)
(*                                                                         *)
(* Every store of the instance, and every request, goes through one        *)
(* L2Cache.  A call asks isAvailable, sends its command, and counts a      *)
(* failure or clears the count; more than Threshold failures in a row open *)
(* the breaker for Cooldown.  The three fields of the breaker are atomics  *)
(* of their own and nothing holds them together, so a call is one step per *)
(* access:                                                                 *)
(*                                                                         *)
(*   check -> cooldown -> reset -> enable                                  *)
(*     \---------------------------> send -> success                       *)
(*                                     \---> failure -> trip -> stamp      *)
(*                                                                         *)
(* One Redis entry is followed, that of a row which changes once; calls    *)
(* for all other keys are of the kind "other".  Time is counted in ticks,  *)
(* and every age stops at the value from which on it makes no difference:  *)
(* there is no bound on the run.                                           *)
(***************************************************************************)
EXTENDS Naturals

CONSTANTS
    Calls,       \* calls that are under way at a time
    Threshold,   \* 5: failures in a row that leave the breaker closed
    Cooldown,    \* one minute
    TTL,         \* ttlL2
    NoEntry

Rows == {"old", "new"}
Entries == [val : Rows, left : 1..TTL]

ASSUME L2Assumption ==
    /\ Threshold \in Nat
    /\ Cooldown \in Nat
    /\ TTL \in Nat \ {0}
    /\ NoEntry \notin Entries

VARIABLES
    enabled,    \* the breaker lets calls through
    failures,   \* up to Threshold + 1, where every further one does the same
    age,        \* ticks since lastFail, up to Cooldown + 1
    up,         \* Redis answers in time
    row,        \* the row behind the entry, before or after its change
    entry,      \* the entry in Redis
    call,       \* the calls under way
    since       \* ticks since the last reader of the old row is done, up to TTL

breaker == <<enabled, failures, age>>
l2Vars == <<enabled, failures, age, up, row, entry, call, since>>

Kinds == {"get", "set", "del", "publish", "other"}
CallSteps == {"idle", "check", "cooldown", "reset", "enable", "send", "success",
          "failure", "trip", "stamp"}

Idle == [pc |-> "idle", kind |-> "get", val |-> "old"]

L2TypeOK ==
    /\ enabled \in BOOLEAN
    /\ failures \in 0..Threshold + 1
    /\ age \in 0..Cooldown + 1
    /\ up \in BOOLEAN
    /\ row \in Rows
    /\ entry \in Entries \cup {NoEntry}
    /\ call \in [Calls -> [pc : CallSteps, kind : Kinds, val : Rows]]
    /\ since \in 0..TTL

\* NewL2Cache: lastFail is zero, long past.
L2Init ==
    /\ enabled = TRUE
    /\ failures = 0
    /\ age = Cooldown + 1
    /\ up = TRUE
    /\ row = "old"
    /\ entry = NoEntry
    /\ call = [c \in Calls |-> Idle]
    /\ since = 0

At(c, step) == call[c].pc = step
GoTo(c, step) == call' = [call EXCEPT ![c].pc = step]

\* A call returns; after Invalidate its caller, the store, calls Publish.
Return(c) ==
    call' = [call EXCEPT ![c] = IF @.kind = "del" THEN [@ EXCEPT !.pc = "check", !.kind = "publish"]
                                ELSE Idle]

-----------------------------------------------------------------------------
(* A call begins.  The callers of Set have read or written the row before. *)

Begin(c, kind, val) ==
    /\ At(c, "idle")
    /\ call' = [call EXCEPT ![c] = [pc |-> "check", kind |-> kind, val |-> val]]

\* Calls for other keys: a Get, or a Set, which may do what a Get may.
Traffic(c) ==
    /\ Begin(c, "other", "old")
    /\ UNCHANGED <<breaker, up, row, entry, since>>

Get(c) ==
    /\ Begin(c, "get", "old")
    /\ UNCHANGED <<breaker, up, row, entry, since>>

\* Set by a caller that read the row, or warms up.
SetRead(c) ==
    /\ Begin(c, "set", row)
    /\ UNCHANGED <<breaker, up, row, entry, since>>

\* Set by a caller that has just changed the row.
SetChanged(c) ==
    /\ row = "old"
    /\ row' = "new"
    /\ Begin(c, "set", "new")
    /\ UNCHANGED <<breaker, up, entry, since>>

Invalidate(c) ==
    /\ Begin(c, "del", "old")
    /\ UNCHANGED <<breaker, up, row, entry, since>>

\* The loop of Subscribe asks isAvailable before it connects and records
\* nothing, as Publish does.
Subscribe(c) ==
    /\ Begin(c, "publish", "old")
    /\ UNCHANGED <<breaker, up, row, entry, since>>

-----------------------------------------------------------------------------
(* isAvailable *)

\* Slip: a call that is let through starts a new count.
CheckEnabled_Resets(c) ==
    /\ At(c, "check")
    /\ GoTo(c, IF enabled THEN "send" ELSE "cooldown")
    /\ failures' = IF enabled THEN 0 ELSE failures
    /\ UNCHANGED <<enabled, age, up, row, entry, since>>

CheckEnabled(c) ==
    /\ At(c, "check")
    /\ GoTo(c, IF enabled THEN "send" ELSE "cooldown")
    /\ UNCHANGED <<breaker, up, row, entry, since>>

\* Slip: a call that is refused counts as the last failure.
CheckCooldown_Extends(c) ==
    /\ At(c, "cooldown")
    /\ IF age > Cooldown THEN GoTo(c, "reset") ELSE Return(c)
    /\ age' = IF age > Cooldown THEN age ELSE 0
    /\ UNCHANGED <<enabled, failures, up, row, entry, since>>

CheckCooldown(c) ==
    /\ At(c, "cooldown")
    /\ IF age > Cooldown THEN GoTo(c, "reset") ELSE Return(c)
    /\ UNCHANGED <<breaker, up, row, entry, since>>

ResetFailures(c) ==
    /\ At(c, "reset")
    /\ failures' = 0
    /\ GoTo(c, "enable")
    /\ UNCHANGED <<enabled, age, up, row, entry, since>>

Enable(c) ==
    /\ At(c, "enable")
    /\ enabled' = TRUE
    /\ GoTo(c, "send")
    /\ UNCHANGED <<failures, age, up, row, entry, since>>

-----------------------------------------------------------------------------
(* The command *)

\* Slip: a read renews the entry, as it does in L1.
Found_Renews(c) ==
    /\ At(c, "send") /\ up
    /\ \/ /\ call[c].kind = "get"
          /\ entry # NoEntry
          /\ entry' = [entry EXCEPT !.left = TTL]
       \/ /\ call[c].kind = "other"
          /\ UNCHANGED entry
    /\ GoTo(c, "success")
    /\ UNCHANGED <<breaker, up, row, since>>

\* Get finds an entry.
Found(c) ==
    /\ At(c, "send") /\ up
    /\ \/ call[c].kind = "get" /\ entry # NoEntry
       \/ call[c].kind = "other"
    /\ GoTo(c, "success")
    /\ UNCHANGED <<breaker, up, row, entry, since>>

\* redis.Nil is neither a failure nor a success.
Missed(c) ==
    /\ At(c, "send") /\ up
    /\ \/ call[c].kind = "get" /\ entry = NoEntry
       \/ call[c].kind = "other"
    /\ Return(c)
    /\ UNCHANGED <<breaker, up, row, entry, since>>

\* What a command does to the entry.  ExpiresAt in the payload is computed
\* before the command is sent, the TTL of Redis starts later: the entry
\* counts as present for the longer of the two.
Effect(c) ==
    entry' = CASE call[c].kind = "set" -> [val |-> call[c].val, left |-> TTL]
               [] call[c].kind = "del" -> NoEntry
               [] OTHER -> entry

Done(c) ==
    /\ At(c, "send") /\ up
    /\ call[c].kind \in {"set", "del", "publish"}
    /\ Effect(c)
    /\ IF call[c].kind = "set" THEN GoTo(c, "success") ELSE Return(c)
    /\ UNCHANGED <<breaker, up, row, since>>

\* No answer in time; Redis may have executed the command.  The errors of
\* Del and Publish are dropped.
NoAnswer(c) ==
    /\ At(c, "send") /\ ~up
    /\ Effect(c) \/ UNCHANGED entry
    /\ IF call[c].kind \in {"del", "publish"} THEN Return(c) ELSE GoTo(c, "failure")
    /\ UNCHANGED <<breaker, up, row, since>>

\* recordSuccess
RecordSuccess(c) ==
    /\ At(c, "success")
    /\ failures' = 0
    /\ Return(c)
    /\ UNCHANGED <<enabled, age, up, row, entry, since>>

\* recordFailure
AddFailure(c) ==
    /\ At(c, "failure")
    /\ failures' = IF failures > Threshold THEN failures ELSE failures + 1
    /\ IF failures' > Threshold THEN GoTo(c, "trip") ELSE Return(c)
    /\ UNCHANGED <<enabled, age, up, row, entry, since>>

Trip(c) ==
    /\ At(c, "trip")
    /\ enabled' = FALSE
    /\ GoTo(c, "stamp")
    /\ UNCHANGED <<failures, age, up, row, entry, since>>

Stamp(c) ==
    /\ At(c, "stamp")
    /\ age' = 0
    /\ Return(c)
    /\ UNCHANGED <<enabled, failures, up, row, entry, since>>

Advance(c) ==
    \/ CheckEnabled(c) \/ CheckCooldown(c) \/ ResetFailures(c) \/ Enable(c)
    \/ Found(c) \/ Missed(c) \/ Done(c) \/ NoAnswer(c)
    \/ RecordSuccess(c) \/ AddFailure(c) \/ Trip(c) \/ Stamp(c)

-----------------------------------------------------------------------------
(* The surroundings *)

\* Redis goes away or comes back.
Outage ==
    /\ up' = ~up
    /\ UNCHANGED <<breaker, row, entry, call, since>>

\* Another instance changes the row and its Set is skipped or lost, or it
\* sets the entry to what it reads in the row, or deletes it.
Elsewhere ==
    /\ \/ row' = "new" /\ UNCHANGED entry
       \/ row' = row /\ entry' = [val |-> row, left |-> TTL]
       \/ row' = row /\ entry' = NoEntry
    /\ UNCHANGED <<breaker, up, call, since>>

OldIsRead == row = "old" \/ \E c \in Calls : call[c].kind = "set" /\ call[c].val = "old"

UpTo(n, bound) == IF n < bound THEN n + 1 ELSE n

L2Tick ==
    /\ age' = UpTo(age, Cooldown + 1)
    /\ entry' = IF entry = NoEntry \/ entry.left = 1 THEN NoEntry
                ELSE [entry EXCEPT !.left = @ - 1]
    /\ since' = IF OldIsRead THEN 0 ELSE UpTo(since, TTL)
    /\ UNCHANGED <<enabled, failures, up, row, call>>

L2Next ==
    \/ \E c \in Calls :
        \/ Traffic(c) \/ Get(c) \/ SetRead(c) \/ SetChanged(c) \/ Invalidate(c)
        \/ Subscribe(c) \/ Advance(c)
    \/ Outage \/ Elsewhere \/ L2Tick

\* A call ends, since the client's timeouts are a fraction of a second, and
\* time passes.  That calls are made is not assumed.
Fairness ==
    /\ \A c \in Calls : WF_l2Vars(Advance(c))
    /\ WF_l2Vars(L2Tick)

L2Spec == L2Init /\ [][L2Next]_l2Vars /\ Fairness

-----------------------------------------------------------------------------
\* Whatever calls the breaker drops and whatever commands are lost, the
\* entry of the old row is gone once the TTL has passed since the last
\* reader of the old row was done: nothing but Set starts the TTL again.
StaleWithinTTL == since = TTL => entry = NoEntry \/ entry.val = "new"

\* Calls are made again and again, of a kind that counts failures.
Used == []<>(\E c \in Calls : At(c, "check"))
UsedCounting ==
    []<>(\E c \in Calls : At(c, "check") /\ call[c].kind \notin {"del", "publish"})

\* When Redis stays up and calls are made, the breaker is closed for good
\* from some time on: no late failure, late time of a failure or refused
\* call keeps it open.
Recovers == Used /\ <>[]up => <>[]enabled

\* When Redis stays away and calls are made, the breaker opens again and
\* again, however often calls that see the cooldown over close it and clear
\* the count.
OutageOpens == UsedCounting /\ <>[]~up => []<>~enabled

\* Violated: a breaker that has just been opened is not closed by a call that
\* compares the time of the failure before.
CooldownKept ==
    [][(~enabled /\ enabled') => \A c \in Calls : call[c].pc # "stamp"]_l2Vars
=============================================================================
