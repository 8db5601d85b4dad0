------------------------------- MODULE Server -------------------------------
(***************************************************************************)
(* The parts of the server that share no state but the clock, beside each  *)
(* other: an upstream client, the router around the registry, use_tool and *)
(* its result cache, bulk_export, the store of tool notes.                 *)
(***************************************************************************)
EXTENDS UpstreamClient

CONSTANTS
  Session, Post, IdleLimit, BusyLimit,                       \* Router
  Caller, Scope, NoScope, Tool,                              \* UseTool
  StopRetryingThreshold, MaxAttemptMapSize, MaxFailures,
  ResultCacheMaxSize, ResultCacheTtl, TotalChars, Limit,     \* ResultCache
  MaxResults,
  Export, Pages, ItemsPerPage, MaxPages, MaxRetries,         \* BulkExport
  Worker, KeyOrder, MaxNotesPerPackage, MaxNotesGlobal, Ttl, \* ToolNotes
  MaxTime

ASSUME ServerAssumption ==
  /\ "none" \notin Session /\ BusyLimit \in Nat
  /\ Tool # {}
  /\ StopRetryingThreshold \in Nat /\ MaxAttemptMapSize \in Nat \ {0} /\ MaxFailures \in Nat
  /\ ResultCacheMaxSize \in Nat \ {0} /\ ResultCacheTtl \in Nat
  /\ TotalChars \in Nat /\ Limit \subseteq Nat \ {0} /\ MaxResults \in Nat
  /\ Pages \in Nat \ {0} /\ ItemsPerPage \in Nat /\ MaxPages \in Nat \ {0} /\ MaxRetries \in Nat
  /\ KeyOrder \in Seq(STRING \X STRING) /\ KeyOrder # << >>
  /\ MaxNotesPerPackage \in Nat /\ MaxNotesGlobal \in Nat /\ Ttl \in Nat
  /\ MaxTime \in Nat

VARIABLES
  clock,
  transport, listener, session, post, owner, watchdog, deadReads, dogLate, teardown, process,
  attempts, use, heard, failures, since,
  cache, made, hint,
  exp, expAborted, broken, temp, out, put, answer, given,
  file, readable, lock, work

Router == INSTANCE Router WITH now <- clock, late <- dogLate

UseTool == INSTANCE UseTool WITH call <- use

ResultCache == INSTANCE ResultCache WITH now <- clock

BulkExport == INSTANCE BulkExport WITH aborted <- expAborted

ToolNotes == INSTANCE ToolNotes WITH now <- clock

router  == <<transport, listener, session, post, owner, watchdog, deadReads, dogLate,
             teardown, process>>
useTool == <<attempts, use, heard, failures, since>>
results == <<cache, made, hint>>
exports == <<exp, expAborted, broken, temp, out, put, answer, given>>
notes   == <<file, readable, lock, work>>
parts   == <<clock, vars, router, useTool, results, exports, notes>>

-----------------------------------------------------------------------------
ServerInit ==
  Init /\ Router!Init /\ UseTool!Init /\ ResultCache!Init /\ BulkExport!Init /\ ToolNotes!Init

UpstreamStep == Next /\ UNCHANGED <<clock, router, useTool, results, exports, notes>>
RouterStep   == Router!Next /\ UNCHANGED <<vars, useTool, results, exports, notes>>
UseToolStep  == UseTool!Next /\ UNCHANGED <<clock, vars, router, results, exports, notes>>
ResultStep   == ResultCache!Next /\ UNCHANGED <<vars, router, useTool, exports, notes>>
ExportStep   == BulkExport!Next /\ UNCHANGED <<clock, vars, router, useTool, results, notes>>
NotesStep    == ToolNotes!Next /\ UNCHANGED <<vars, router, useTool, results, exports>>

ServerNext ==
  UpstreamStep \/ RouterStep \/ UseToolStep \/ ResultStep \/ ExportStep \/ NotesStep

ServerSpec == ServerInit /\ [][ServerNext]_parts

-----------------------------------------------------------------------------
(* Every part of src/ modelled here keeps its types.                       *)
PartsTypeOK ==
  /\ TypeOK /\ Router!TypeOK /\ UseTool!TypeOK /\ ResultCache!TypeOK /\ BulkExport!TypeOK
  /\ ToolNotes!TypeOK

(* src/server.ts: a session with an open tool call is not collected before *)
(* its busy limit.                                                         *)
BusySessionsStay == Router!BusySessionsStay

(* src/server.ts: nothing cuts the one teardown short.                     *)
TeardownIsNotCutShort == Router!TeardownIsNotCutShort

(* src/handlers/useTool.ts: a full map of attempts forgets only the least  *)
(* recently touched.                                                       *)
RecentCountsSurvive == UseTool!RecentCountsSurvive

(* src/handlers/useTool.ts: long results can be read on to their end.      *)
LongResultsCanBeRead == ResultCache!LongResultsCanBeRead

(* src/handlers/bulkExport.ts: a file is replaced only when asked for.     *)
NothingIsOverwritten == BulkExport!NothingIsOverwritten

(* src/handlers/bulkExport.ts: what an export reports is what it published. *)
ReportIsTrue == BulkExport!ReportIsTrue

(* src/toolNotes.ts: no process loses another's note.                      *)
NotesAreKept == ToolNotes!NotesAreKept
=============================================================================
