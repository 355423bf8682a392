------------------------------ MODULE MCService ------------------------------
(***************************************************************************)
(* Instances of Migrate for TLC: the service, a program started by hand    *)
(* and the tool, on three records of which the last is of a chat that is   *)
(* not configured.                                                         *)
(***************************************************************************)
EXTENDS Migrate

Complete == [sections |-> Section, queue |-> "leveldb", metrics |-> TRUE]
NoFeishu == [Complete EXCEPT !.sections = Section \ {"feishu"}]
\* The example of README.md
Example == [Complete EXCEPT !.sections = Section \ {"feishu", "retry"}]
InMemory == [sections |-> Section \ {"http"}, queue |-> "memory", metrics |-> FALSE]
NoHTTP == [Complete EXCEPT !.sections = Section \ {"http"}]

Configs == {Complete, NoFeishu, NoHTTP, Example, InMemory}

Bare == [named |-> FALSE, clean |-> FALSE]

\* All to be repaired; one that cannot be; a single one.
Histories == {<<Bare, Bare, Bare>>, <<Bare, Broken, Bare>>, <<Absent, Bare, Absent>>}

=============================================================================
