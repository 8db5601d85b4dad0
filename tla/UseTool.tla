------------------------------ MODULE UseTool ------------------------------
(***************************************************************************)
(* use_tool (src/handlers/useTool.ts): the counters of failed attempts     *)
(* that decide when a caller is told to stop retrying.  They belong to the *)
(* process and are shared by every session.  Arguments, results and        *)
(* messages are abstracted to the branch they take; the registry and the   *)
(* catalog are modelled elsewhere, long results in ResultCache.            *)
(***************************************************************************)
EXTENDS Naturals, Sequences, FiniteSets

CONSTANTS
  Caller,            \* requests that may be in progress at once
  Scope, NoScope,    \* attempt scopes; a caller that names none
  Tool,              \* pairs of a package and a tool
  StopRetryingThreshold,
  MaxAttemptMapSize,
  MaxFailures        \* a bound

VARIABLES
  attempts,  \* validationAttemptMap, least recently touched first
  call,      \* [st, scope, tool]
  heard,     \* the last answer that was given
  failures,  \* failures of a key since an outcome the tests call a reset
  since      \* the other keys that have failed since a key last did

vars  == <<attempts, call, heard, failures, since>>
ghost == <<failures, since>>

Phase == {"validation", "downstream"}
Key   == (Scope \union {NoScope}) \X Tool \X Phase

(* getValidationAttemptKey                                                 *)
AttemptKey(c, phase) == <<call[c].scope, call[c].tool, phase>>

(* Whose failures they are, for the history variables.                     *)
Own(c, phases) == {call[c].scope} \X {call[c].tool} \X phases

CountOf(held, k) ==
  LET at == {i \in DOMAIN held : held[i].key = k}
  IN IF at = {} THEN 0 ELSE held[CHOOSE i \in at : TRUE].n

(* The entries of other keys among the first i, in their order.            *)
Others(held, keys) ==
  LET kept[i \in 0..Len(held)] ==
        IF i = 0 THEN << >>
        ELSE IF held[i].key \in keys THEN kept[i - 1]
        ELSE Append(kept[i - 1], held[i])
  IN kept

(* resetValidationAttempt, for a set of keys.                              *)
Reset(held, keys) == Others(held, keys)[Len(held)]

(* An entry that keeps its place when it is counted up: a mutant.          *)
IncrementInPlace(held, k) ==
  LET n == CountOf(held, k) + 1 IN
  IF n > 1 THEN [i \in DOMAIN held |-> IF held[i].key = k THEN [key |-> k, n |-> n] ELSE held[i]]
  ELSE Append(IF Len(held) >= MaxAttemptMapSize THEN Tail(held) ELSE held, [key |-> k, n |-> n])

(* incrementValidationAttempt: a key that is held moves to the end, one    *)
(* that is not makes room by dropping the oldest entry.                    *)
Increment(held, k) ==
  LET entry  == [key |-> k, n |-> CountOf(held, k) + 1]
      isHeld == CountOf(held, k) > 0
      room   == IF ~isHeld /\ Len(held) >= MaxAttemptMapSize THEN Tail(held)
                ELSE Reset(held, {k})
  IN Append(room, entry)

Said(kind) == [kind |-> kind]

Idle == [st |-> "idle", scope |-> NoScope, tool |-> CHOOSE t \in Tool : TRUE]

EndCall(c, answer) == /\ call' = [call EXCEPT ![c] = Idle]
                      /\ heard' = answer

(* scopeIsAttributable and the threshold.                                  *)
ShouldStop(c, n) == n >= StopRetryingThreshold /\ call[c].scope # NoScope

(* A failure in one phase; the counts of the phases `cleared` go first.    *)
CountFailure(c, phase, cleared) ==
  LET k    == AttemptKey(c, phase)
      held == Increment(Reset(attempts, {AttemptKey(c, p) : p \in cleared}), k)
      own  == CHOOSE x \in Own(c, {phase}) : TRUE
  IN /\ failures[own] < MaxFailures /\ CountOf(attempts, k) < MaxFailures
     /\ attempts' = held
     /\ failures' = [x \in Key |-> IF x = own THEN failures[x] + 1
                                   ELSE IF x \in Own(c, cleared) THEN 0 ELSE failures[x]]
     /\ since' = [x \in Key |-> IF x = own THEN {} ELSE since[x] \union {own}]
     /\ EndCall(c, [kind |-> "failed", own |-> failures[own] + 1, scope |-> call[c].scope,
                    stop |-> ShouldStop(c, CountOf(held, k))])

ForgetFailures(c, phases) ==
  /\ attempts' = Reset(attempts, {AttemptKey(c, p) : p \in phases})
  /\ failures' = [x \in Key |-> IF x \in Own(c, phases) THEN 0 ELSE failures[x]]
  /\ UNCHANGED since

-----------------------------------------------------------------------------
(* The call, up to the first await: the target is resolved and access is   *)
(* asserted, then the catalog loads the package.                           *)
Use(c) ==
  /\ call[c].st = "idle"
  /\ \E s \in Scope \union {NoScope}, t \in Tool :
       call' = [call EXCEPT ![c] = [st |-> "loading", scope |-> s, tool |-> t]]
  /\ UNCHANGED <<attempts, heard, ghost>>

(* The package is not ready, or has no such tool: nothing is counted.      *)
Unavailable(c) ==
  /\ call[c].st = "loading"
  /\ EndCall(c, Said("unavailable"))
  /\ UNCHANGED <<attempts, ghost>>

(* The arguments are invalid and cannot be repaired, or hold a misplaced   *)
(* parameter.                                                              *)
Invalid(c) ==
  /\ call[c].st = "loading"
  /\ CountFailure(c, "validation", {"downstream"})

DryRun(c) ==
  /\ call[c].st = "loading"
  /\ ForgetFailures(c, Phase)
  /\ EndCall(c, Said("dry run"))

(* The arguments are valid: registry.callTool.                             *)
Dispatch(c) ==
  /\ call[c].st = "loading"
  /\ ForgetFailures(c, {"validation"})
  /\ call' = [call EXCEPT ![c].st = "calling"]
  /\ UNCHANGED heard

-----------------------------------------------------------------------------
(* The result is saved to a file and the answer names the file.  The       *)
(* function returns here, before the reset at its end; the call succeeded  *)
(* all the same, and history takes it for that.                            *)
Materialized(c) ==
  /\ call[c].st = "calling"
  /\ failures' = [x \in Key |-> IF x \in Own(c, {"downstream"}) THEN 0 ELSE failures[x]]
  /\ EndCall(c, Said("file"))
  /\ UNCHANGED <<attempts, since>>

(* A file read that is refused is told as a result, and nothing is reset.  *)
Refused(c) ==
  /\ call[c].st = "calling"
  /\ EndCall(c, Said("refused"))
  /\ UNCHANGED <<attempts, ghost>>

(* A result, whole or cut (ResultCache!Truncated).                         *)
Answered(c) ==
  /\ call[c].st = "calling"
  /\ ForgetFailures(c, {"downstream"})
  /\ EndCall(c, Said("result"))

(* The tool's output does not match its schema, or the call failed for any *)
(* reason but its arguments.                                               *)
CallFails(c) ==
  /\ call[c].st = "calling"
  /\ ForgetFailures(c, {"downstream"})
  /\ EndCall(c, Said("error"))

(* The server rejects the arguments.                                       *)
ParamsRejected(c) ==
  /\ call[c].st = "calling"
  /\ CountFailure(c, "downstream", {})

-----------------------------------------------------------------------------
Init ==
  /\ attempts = << >>
  /\ call = [c \in Caller |-> Idle]
  /\ heard = Said("nothing")
  /\ failures = [k \in Key |-> 0]
  /\ since = [k \in Key |-> {}]

Next ==
  \/ \E c \in Caller :
       \/ Use(c) \/ Unavailable(c) \/ Invalid(c) \/ DryRun(c) \/ Dispatch(c)
       \/ Materialized(c) \/ Refused(c) \/ Answered(c)
       \/ CallFails(c) \/ ParamsRejected(c)

Spec == Init /\ [][Next]_vars

-----------------------------------------------------------------------------
TypeOK ==
  /\ attempts \in Seq([key : Key, n : Nat \ {0}])
  /\ Len(attempts) <= MaxAttemptMapSize
  /\ call \in [Caller -> [st : {"idle", "loading", "calling"},
                          scope : Scope \union {NoScope}, tool : Tool]]
  /\ failures \in [Key -> 0..MaxFailures]

(* The stop message "may only fire on a count the person in front of it    *)
(* actually generated": that scope, on that tool, in that phase, has       *)
(* itself failed as often as the threshold says since its last outcome     *)
(* that the tests call a reset, a success among them.  The code does not   *)
(* keep to it: a success whose result is saved to a file resets nothing.   *)
StopIsEarned ==
  heard.kind = "failed" /\ heard.stop =>
    heard.scope # NoScope /\ heard.own >= StopRetryingThreshold

(* A full map forgets only the least recently touched key: a count is gone *)
(* only once as many other keys as the map holds have failed since.        *)
RecentCountsSurvive ==
  \A k \in Key :
    \/ failures[k] = 0
    \/ CountOf(attempts, k) > 0
    \/ Cardinality(since[k]) >= MaxAttemptMapSize
=============================================================================
