----------------------------- MODULE HistoryAPI -----------------------------
(***************************************************************************)
(* The HTTP API of the chat history (internal/api/chat_history.go) on a    *)
(* history that is being written: the two queries, and the export to CSV,  *)
(* which goes through a temporary file (ExportToCSV and ExportUserToCSV of *)
(* internal/storage/chat_history.go).                                      *)
(*                                                                         *)
(* Every request has a goroutine of its own.  The name of the temporary    *)
(* file is made of the chat and the second, so that requests may share it. *)
(* A file is the sequence of its rows; a writer starts at the beginning    *)
(* and replaces what is there row by row.                                  *)
(***************************************************************************)
EXTENDS ChatHistory, Functions

CONSTANTS
    Request,        \* the requests; each is made once
    Params,         \* chat, user ("" for all), start and end of a request
    Faults,         \* may the file system fail?
    NoFile

ASSUME APIAssumption ==
    /\ Params \subseteq [chat : Int64, user : STRING, start : Int64, end : Int64]
    /\ Faults \in BOOLEAN
    /\ NoFile \notin Request

VARIABLES
    req,        \* request -> its handler
    files,      \* name -> file, a file being named after its creator
    content,    \* file -> rows
    faulty,     \* history: the exports during which the file system failed
                \* (req[r].shared: it met another of its chat and second)
    left        \* history: the names of files that an export has left, as it
                \* failed or the process ended, and none has removed since

apiVars == <<req, files, content, faulty, left>>
vars == <<historyVars, apiVars>>

NoParams == [chat |-> 0, user |-> "", start |-> 0, end |-> 0]

Idle == [at |-> "idle", p |-> NoParams, second |-> 0, rows |-> << >>,
         fd |-> NoFile, answer |-> << >>, shared |-> FALSE]

Init ==
    /\ HistoryInit
    /\ req = [r \in Request |-> Idle]
    /\ files = << >>
    /\ content = [r \in Request |-> << >>]
    /\ faulty = {}
    /\ left = {}

-----------------------------------------------------------------------------
(* Queries *)

Matching(p) ==
    IF p.user = "" THEN QueryMessages(p.chat, p.start, p.end)
                   ELSE QueryMessagesByUser(p.chat, p.user, p.start, p.end)

KeyOf(x) == makeKey(x.chat, x.time)

\* Mutant: from the last key to the first.
RowsBackwards(p) ==
    CHOOSE s \in [1 .. Cardinality(Matching(p)) -> Matching(p)] :
        \A i, j \in DOMAIN s : i < j => Before(KeyOf(s[j]), KeyOf(s[i]))

\* The rows for a request, in the order of the iterator, that of the keys.
Rows(p) ==
    CHOOSE s \in [1 .. Cardinality(Matching(p)) -> Matching(p)] :
        \A i, j \in DOMAIN s : i < j => Before(KeyOf(s[i]), KeyOf(s[j]))

\* A handler has its answer, or ends: after that nothing of it matters.
Answer(r, p, rows) ==
    req' = [req EXCEPT ![r] = [@ EXCEPT !.at = "answer", !.p = p, !.answer = rows]]

Ended == [Idle EXCEPT !.at = "end"]
End(r) == req' = [req EXCEPT ![r] = Ended]

\* The iterator may fail: the answer is an error.
QueryHandler(r, p) ==
    /\ req[r].at = "idle"
    /\ \/ LET q == [p EXCEPT !.user = ""] IN Answer(r, q, Rows(q))
       \/ Faults /\ End(r)
    /\ UNCHANGED <<historyVars, files, content, faulty, left>>

\* A request without user name is refused.
QueryByUserHandler(r, p) ==
    /\ req[r].at = "idle"
    /\ \/ p.user # "" /\ Answer(r, p, Rows(p))
       \/ (p.user = "" \/ Faults) /\ End(r)
    /\ UNCHANGED <<historyVars, files, content, faulty, left>>

\* The answer is encoded and sent.
Reply(r) ==
    /\ req[r].at = "answer"
    /\ End(r)
    /\ UNCHANGED <<historyVars, files, content, faulty, left>>

-----------------------------------------------------------------------------
(* Exports *)

\* Mutant: the second alone.
FileNameOfSecond(x) == <<x.second>>

\* chat_history_<chat>_<date>_<time>.csv
FileName(x) == <<x.p.chat, x.second>>

NameOf(r) == FileName(req[r])
Exists(n) == n \in DOMAIN files
Exporting(r) == req[r].at \in {"create", "write", "read", "remove"}

\* A file without a name that nobody has open is gone.
Keep(c) ==
    content' = [f \in Request |->
                  IF f \in Range(files') \cup {req'[r].fd : r \in Request}
                  THEN c[f] ELSE << >>]

\* The parameters are read and the name of the file is made.
ExportHandler(r, p) ==
    LET second == clock - (clock % Second)
        met == {o \in Request : Exporting(o) /\ req[o].p.chat = p.chat
                                 /\ req[o].second = second}
    IN  /\ req[r].at = "idle"
        /\ req' = [o \in Request |->
                     IF o = r
                     THEN [Idle EXCEPT !.at = "create", !.p = p, !.second = second,
                                       !.shared = (met # {})]
                     ELSE [req[o] EXCEPT !.shared = @ \/ o \in met]]
        /\ UNCHANGED <<historyVars, files, content, faulty, left>>

\* Mutant: a file of that name keeps its rows.
CreateKeeping(r) ==
    LET f == IF Exists(NameOf(r)) THEN files[NameOf(r)] ELSE r
    IN  /\ req[r].at = "create"
        /\ files' = [n \in DOMAIN files \cup {NameOf(r)} |-> IF n = NameOf(r) THEN f ELSE files[n]]
        /\ UNCHANGED content
        /\ req' = [req EXCEPT ![r].at = "write", ![r].fd = f, ![r].rows = Rows(req[r].p)]
        /\ UNCHANGED <<historyVars, faulty, left>>

\* The query, and os.Create: a file of that name is emptied, not replaced.
\* The query might as well be earlier: nobody sees the rows.
Create(r) ==
    LET f == IF Exists(NameOf(r)) THEN files[NameOf(r)] ELSE r
    IN  /\ req[r].at = "create"
        /\ files' = [n \in DOMAIN files \cup {NameOf(r)} |-> IF n = NameOf(r) THEN f ELSE files[n]]
        /\ content' = [content EXCEPT ![f] = << >>]
        /\ req' = [req EXCEPT ![r].at = "write", ![r].fd = f, ![r].rows = Rows(req[r].p)]
        /\ UNCHANGED <<historyVars, faulty, left>>

\* Rows replace the first rows of what has been written meanwhile.
Over(rows, old) == rows \o SubSeq(old, Len(rows) + 1, Len(old))

Written(r, n) ==
    [content EXCEPT ![req[r].fd] = Over(SubSeq(req[r].rows, 1, n), @)]

\* Files that have lost the export that would have removed them.
Leave(names) == left' = (left \cup names) \cap DOMAIN files

Closed(r) == req' = [req EXCEPT ![r].at = "read", ![r].fd = NoFile]

\* Flush and Close, deferred.
Write(r) ==
    /\ req[r].at = "write"
    /\ Closed(r)
    /\ UNCHANGED <<historyVars, files, faulty, left>>
    /\ Keep(Written(r, Len(req[r].rows)))

\* The disk fails after some of the rows.  An error of a row's Write ends the
\* export and leaves the file; one of the deferred Flush is not looked at.
WriteError(r) ==
    /\ Faults
    /\ req[r].at = "write"
    /\ \/ End(r) /\ Leave({NameOf(r)})
       \/ Closed(r) /\ UNCHANGED left
    /\ faulty' = faulty \cup {r}
    /\ UNCHANGED <<historyVars, files>>
    /\ \E n \in 0 .. Len(req[r].rows) : Keep(Written(r, n))

\* The query, Create or ReadFile fails, or Remove does, which is not looked at.
ExportError(r) ==
    /\ Faults
    /\ req[r].at \in {"create", "read", "remove"}
    /\ End(r)
    /\ Leave(IF req[r].at = "create" THEN {} ELSE {NameOf(r)})
    /\ faulty' = faulty \cup {r}
    /\ UNCHANGED <<historyVars, files, content>>

\* Another export of the same name may have removed the file.
ReadFile(r) ==
    /\ req[r].at = "read"
    /\ IF Exists(NameOf(r))
       THEN req' = [req EXCEPT ![r].at = "remove",
                               ![r].answer = content[files[NameOf(r)]]]
       ELSE End(r)
    /\ UNCHANGED <<historyVars, files, content, faulty, left>>

\* Mutant: the name is made again from the time of the removal.
RemoveNow(r) ==
    /\ req[r].at = "remove"
    /\ files' = [n \in DOMAIN files \ {FileName([req[r] EXCEPT !.second = clock - (clock % Second)])}
                    |-> files[n]]
    /\ left' = left \cap DOMAIN files'
    /\ End(r)
    /\ UNCHANGED <<historyVars, faulty>>
    /\ Keep(content)

\* The answer is sent, and the deferred Remove takes the file away.
RemoveFile(r) ==
    /\ req[r].at = "remove"
    /\ files' = [n \in DOMAIN files \ {NameOf(r)} |-> files[n]]
    /\ left' = left \ {NameOf(r)}
    /\ End(r)
    /\ UNCHANGED <<historyVars, faulty>>
    /\ Keep(content)

\* r has a file, and will remove what has its name.
Removes(r) == req[r].at \in {"write", "read", "remove"}

\* The process ends, by Stop and the end of main, which waits for no request,
\* or by a kill.  No deferred call runs: the files stay.
Exit ==
    /\ Interrupt
    /\ req' = [r \in Request |-> IF req[r].at = "idle" THEN Idle ELSE Ended]
    /\ Leave({NameOf(r) : r \in {o \in Request : Removes(o)}})
    /\ UNCHANGED <<files, faulty>>
    /\ Keep(content)

-----------------------------------------------------------------------------

Handler(r) ==
    \/ \E p \in Params : \/ QueryHandler(r, p)
                         \/ QueryByUserHandler(r, p)
                         \/ ExportHandler(r, p)
    \/ Reply(r)
    \/ Create(r) \/ Write(r) \/ ReadFile(r) \/ RemoveFile(r)
    \/ WriteError(r) \/ ExportError(r)

Next ==
    \/ HistoryStep /\ UNCHANGED apiVars
    \/ \E r \in Request : Handler(r)
    \/ Exit

Spec == Init /\ [][Next]_vars

-----------------------------------------------------------------------------
(* Properties *)

TypeOK ==
    /\ HistoryTypeOK
    /\ \A r \in Request :
           /\ req[r].at \in {"idle", "create", "write", "read", "remove",
                              "answer", "end"}
           /\ req[r].fd \in IF req[r].at = "write" THEN Request ELSE {NoFile}
           /\ Range(req[r].rows) \subseteq Record
           /\ Range(req[r].answer) \subseteq Record
    /\ Range(files) \subseteq Request
    /\ faulty \subseteq Request
    /\ left \subseteq DOMAIN files

\* No answer has a record of another chat: whatever exports share, they share it within their chat.
AnswerOfOneChat ==
    \A r \in Request : \A x \in Range(req[r].answer) : x.chat = req[r].p.chat

\* What a query or an export finds is every record of its chat, user and
\* interval that is there at this moment, the oldest first.  Every record:
\* docs/API.md:78-79 and 133-134 give the queries a limit, 100 if it is not
\* said, and an offset, which the handlers never read.
QueriesAreComplete ==
    [][\A r \in Request :
          LET p == req'[r].p
              found == IF req'[r].at = "answer" THEN req'[r].answer ELSE req'[r].rows
          IN  /\ req[r].at # req'[r].at /\ req'[r].at \in {"answer", "write"}
              /\ p.start >= 0 /\ p.end >= 0
              => /\ Range(found) =
                        {x \in {db[k] : k \in DOMAIN db} :
                            /\ x.chat = p.chat /\ p.user \in {"", x.from}
                            /\ p.start <= x.time /\ x.time < p.end}
                 /\ \A i, j \in DOMAIN found : i < j => found[i].time < found[j].time]_vars

\* An export that meets no other of its chat and second, and no failure,
\* answers with the records that it has found.
ExportAlone ==
    \A r \in Request \ faulty :
        req[r].at = "remove" /\ ~ req[r].shared => req[r].answer = req[r].rows

\* Every temporary file has an export under way that is going to remove it,
\* unless one that failed or was cut off by the end of the process has left it:
\* in whatever order exports of one name create, read and remove it, none loses
\* the file of another, or makes one again that nobody takes away.
LeftOnlyByFailure ==
    \A n \in DOMAIN files :
        n \in left \/ \E r \in Request : Removes(r) /\ NameOf(r) = n

\* ExportToCSV exports the records of the chat and interval it is given, and
\* ExportUserToCSV those of the user (storage/chat_history.go:120, 166).
ExportsOwnRecords ==
    \A r \in Request \ faulty :
        req[r].at = "remove" => req[r].answer = req[r].rows

=============================================================================
