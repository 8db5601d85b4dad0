--------------------------- MODULE MCConfiguration ---------------------------
(* Configuration with two files and two packages.                          *)
EXTENDS Configuration

CONSTANTS root, extra, gone, s1, s2, d1, d2, a1, p1, absent, broken, nobody

Stdio(identity, env) == [transport |-> "stdio", identity |-> identity, env |-> env]
Http(identity)       == [transport |-> "http", identity |-> identity, env |-> 0]

Holds(servers, security, disabled, homes, configPaths) ==
  [servers |-> servers, security |-> security, disabledServers |-> disabled,
   homes |-> homes, configPaths |-> configPaths]

At1(s, v) == [x \in {s} |-> v]

(* The main file: s1, then a new env with a home, then another identity    *)
(* with the other file left out.                                           *)
MainFile ==
  <<Holds(At1(s1, Stdio("A", 1)), {}, {}, NoMap, <<extra>>),
    Holds(At1(s1, Stdio("A", 2)), {s2}, {}, At1(s1, "home"), <<extra>>),
    Holds(At1(s1, Stdio("B", 2)), {}, {}, NoMap, <<>>)>>

(* The other: an invalid entry, an addition, a circle with a file that is  *)
(* not there, no JSON.                                                     *)
OtherFile ==
  <<Holds(At1(s2, Http("invalid")), {s1}, {}, NoMap, <<>>),
    Holds(At1(s2, Http("C")), {}, {}, NoMap, <<>>),
    Holds(NoMap, {s2}, {s1}, NoMap, <<root, gone>>),
    broken>>

FileContents ==
  [f \in {root, extra, gone} |->
     IF f = root THEN Range(MainFile) ELSE IF f = extra THEN Range(OtherFile) ELSE {}]

FirstFiles ==
  {[f \in {root, extra, gone} |->
      IF f = root THEN MainFile[1] ELSE IF f = extra THEN OtherFile[1] ELSE absent]}
=============================================================================
