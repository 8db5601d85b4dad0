---------------------------- MODULE ResultCache ----------------------------
(***************************************************************************)
(* The long results of use_tool (src/handlers/useTool.ts): cut in the      *)
(* answer, kept whole in a cache of the process, and read on in chunks     *)
(* with result_id and output_offset.  A text is abstracted to its length.  *)
(***************************************************************************)
EXTENDS Naturals, FiniteSets

CONSTANTS
  Caller,
  ResultCacheMaxSize,
  ResultCacheTtl,      \* RESULT_CACHE_TTL_MS, in ticks
  TotalChars,          \* the length of a long result
  Limit,               \* values of max_output_chars, the default among them
  MaxResults, MaxTime  \* bounds

VARIABLES
  cache,  \* resultCache
  now,    \* the clock
  made,   \* results cached so far, which is also the last id
  hint    \* what each caller was last told, and what it has read without a gap

vars == <<cache, now, made, hint>>

Nothing == [kind |-> "none"]

Expired(entry) == now - entry.at > ResultCacheTtl

(* The newest entry makes room: a mutant.                                  *)
CacheInFrontOf(id) ==
  LET live   == {e \in cache : ~Expired(e)}
      newest == CHOOSE e \in live : \A f \in live : e.id >= f.id
      room   == IF Cardinality(live) >= ResultCacheMaxSize THEN live \ {newest} ELSE live
  IN room \union {[id |-> id, at |-> now]}

(* cacheResult: expired entries go, then the oldest one if it is full.     *)
CacheResult(id) ==
  LET live   == {e \in cache : ~Expired(e)}
      oldest == CHOOSE e \in live :
                  \A f \in live : e.at < f.at \/ (e.at = f.at /\ e.id <= f.id)
      room   == IF Cardinality(live) >= ResultCacheMaxSize THEN live \ {oldest} ELSE live
  IN room \union {[id |-> id, at |-> now]}

(* A call's result is too long: it is cut, or replaced by a placeholder,   *)
(* and the answer tells how to read the whole text from its start.         *)
Truncated(c) ==
  /\ made < MaxResults
  /\ cache' = CacheResult(made + 1)
  /\ made' = made + 1
  /\ hint' = [hint EXCEPT ![c] =
                [kind |-> "more", id |-> made + 1, at |-> now, offset |-> 0, read |-> 0]]
  /\ UNCHANGED now

ChunkEnd(offset, limit) ==
  IF offset + limit < TotalChars THEN offset + limit ELSE TotalChars

HasMore(end) == end < TotalChars

(* handleContinuation, with a limit of the caller's choice.                *)
Continue(c) ==
  /\ hint[c].kind = "more"
  /\ LET told  == hint[c]
         found == {e \in cache : e.id = told.id /\ ~Expired(e)}
     IN IF found = {}
          THEN /\ cache' = {e \in cache : e.id # told.id}
               /\ hint' = [hint EXCEPT ![c] = Nothing]
          ELSE /\ \E limit \in Limit :
                    LET end  == ChunkEnd(told.offset, limit)
                        read == IF told.offset = told.read THEN end ELSE told.read
                    IN hint' = [hint EXCEPT ![c] =
                         IF HasMore(end) THEN [told EXCEPT !.offset = end, !.read = read]
                         ELSE [kind |-> "whole", read |-> read]]
               /\ UNCHANGED cache
  /\ UNCHANGED <<now, made>>

Tick == now < MaxTime /\ now' = now + 1 /\ UNCHANGED <<cache, made, hint>>

Init ==
  /\ cache = {}
  /\ now = 0
  /\ made = 0
  /\ hint = [c \in Caller |-> Nothing]

Next == Tick \/ \E c \in Caller : Truncated(c) \/ Continue(c)

Spec == Init /\ [][Next]_vars

-----------------------------------------------------------------------------
TypeOK ==
  /\ cache \subseteq [id : 1..MaxResults, at : 0..MaxTime]
  /\ Cardinality(cache) <= ResultCacheMaxSize
  /\ now \in 0..MaxTime
  /\ made \in 0..MaxResults

(* The id in an answer can be read until it expires or as many newer       *)
(* results as the cache holds have come, and the chunks, read one after    *)
(* the other with any limits, are the whole text.                          *)
LongResultsCanBeRead ==
  \A c \in Caller :
    /\ hint[c].kind = "more" /\ now - hint[c].at <= ResultCacheTtl
         /\ made - hint[c].id < ResultCacheMaxSize
         => \E e \in cache : e.id = hint[c].id
    /\ hint[c].kind = "whole" => hint[c].read = TotalChars
=============================================================================
