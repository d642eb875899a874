------------------------------ MODULE Pipeline ------------------------------
(***************************************************************************)
(* frontEnd.cc, fileReader.h, builder.cc: the main thread reads the edge   *)
(* file batch by batch, replaces vertex names by logical IDs and pushes    *)
(* the batches on a queue; a second thread pops them, updates the graph    *)
(* structure and runs the algorithm.  They share the queue, its mutex and, *)
(* without a lock, the flag `still_reading' (main's `loop').               *)
(*                                                                         *)
(* The graph structure is reduced to what every update() derives from the  *)
(* edges it is given: how many vertices there are (counted from the flags) *)
(* and which edges were applied.                                           *)
(***************************************************************************)
EXTENDS Integers, SequencesExt

CONSTANTS
    Names,      \* vertex names in the file
    BatchSize,  \* option batch_size; 0 makes the whole file one batch
    MaxLines    \* bound on the lines of a file

Blank == "blank"    \* an empty line, which the reader skips
Lines == (Names \X Names) \cup {<<Blank>>}

ASSUME BatchSizeAssumption == BatchSize \in Nat
ASSUME MaxLinesAssumption == MaxLines \in Nat

VARIABLES
    file,           \* the lines of the input file
    newlineAtEnd,   \* whether its last line is terminated
    pos, eof,       \* the stream: the next line; the eofbit
    VMap, lastAssignedLogicalID,
    el,             \* the batch readBatchFromCSV is building
    queue, mutex, still_reading,
    main, builder,  \* the control points of the two threads
    taken,          \* the batch the builder has popped
    num_nodes, applied, computed    \* the graph structure

stream == <<file, newlineAtEnd, pos, eof, VMap, lastAssignedLogicalID>>
shared == <<queue, mutex, still_reading>>
graph == <<num_nodes, applied, computed>>
vars == <<stream, el, shared, main, builder, taken, graph>>

ID == Nat
BatchEdge == [source : ID, destination : ID, sourceExists : BOOLEAN,
              destExists : BOOLEAN]

TypeOK ==
    /\ file \in Seq(Lines) /\ newlineAtEnd \in BOOLEAN
    /\ pos \in 1 .. MaxLines + 1 /\ eof \in BOOLEAN
    /\ VMap \in [DOMAIN VMap -> ID] /\ DOMAIN VMap \subseteq Names
    /\ lastAssignedLogicalID \in ID \cup {-1}
    /\ el \in Seq(BatchEdge)
    /\ queue \in Seq(Seq(BatchEdge))
    /\ mutex \in {"free", "main", "builder"}
    /\ still_reading \in BOOLEAN
    /\ main \in {"read", "push", "poll", "stop", "join", "print", "end"}
    /\ builder \in {"lock", "test", "update", "perform", "exit"}
    /\ taken \in Seq(BatchEdge)
    /\ num_nodes \in Nat /\ applied \in Seq(BatchEdge) /\ computed \in Nat

Init ==
    /\ file \in UNION {[1 .. n -> Lines] : n \in 0 .. MaxLines}
    /\ newlineAtEnd \in IF file = <<>> \/ Last(file) = <<Blank>>
                       THEN {TRUE} ELSE BOOLEAN
    /\ pos = 1 /\ eof = FALSE
    /\ VMap = [n \in {} |-> 0] /\ lastAssignedLogicalID = -1
    /\ el = <<>>
    /\ queue = <<>> /\ mutex = "free" /\ still_reading = TRUE
    /\ main = "read" /\ builder = "lock"
    /\ taken = <<>>
    /\ num_nodes = 0 /\ applied = <<>> /\ computed = 0

-----------------------------------------------------------------------------
(* The main thread: readBatchFromCSV(), line by line.                      *)

IsMapped(name, map) == name \in DOMAIN map

(* The map after assignLogicalID(name): a name not seen takes the next ID. *)
Assigned(name, map, last) ==
    IF IsMapped(name, map) THEN map
    ELSE [n \in DOMAIN map \cup {name} |-> IF n = name THEN last + 1 ELSE map[n]]

(* lastAssignedLogicalID after assignLogicalID(name).                      *)
LastAfter(name, map, last) == IF IsMapped(name, map) THEN last ELSE last + 1

GetLine(line) ==
    /\ pos' = pos + 1
    /\ eof' = (pos = Len(file) /\ ~newlineAtEnd)
    /\ IF line = <<Blank>>
       THEN UNCHANGED <<VMap, lastAssignedLogicalID, el, main>>
       ELSE LET withSource == Assigned(line[1], VMap, lastAssignedLogicalID)
                last == LastAfter(line[1], VMap, lastAssignedLogicalID)
                withBoth == Assigned(line[2], withSource, last)
            IN  /\ VMap' = withBoth
                /\ lastAssignedLogicalID' = LastAfter(line[2], withSource, last)
                /\ el' = Append(el,
                     [source |-> withBoth[line[1]],
                      destination |-> withBoth[line[2]],
                      sourceExists |-> IsMapped(line[1], VMap),
                      destExists |-> IsMapped(line[2], withSource)])
                /\ main' = IF Len(el) + 1 = BatchSize THEN "push" ELSE "read"

ReadLine ==
    /\ main = "read"
    /\ pos <= Len(file)
    /\ GetLine(file[pos])
    /\ UNCHANGED <<file, newlineAtEnd, shared, builder, taken, graph>>

(* getline fails: the batch, possibly empty, is complete.                  *)
ReadPastEnd ==
    /\ main = "read"
    /\ pos > Len(file)
    /\ eof' = TRUE
    /\ main' = "push"
    /\ UNCHANGED <<file, newlineAtEnd, pos, VMap, lastAssignedLogicalID, el,
                   shared, builder, taken, graph>>

(* The critical section is a single push; then while (!file.eof()).        *)
Push ==
    /\ main = "push"
    /\ mutex = "free"
    /\ queue' = Append(queue, el)
    /\ el' = <<>>
    /\ main' = IF eof THEN "poll" ELSE "read"
    /\ UNCHANGED <<stream, mutex, still_reading, builder, taken, graph>>

(* Is the queue empty?  Under the mutex, then a sleep.                     *)
Poll ==
    /\ main = "poll"
    /\ mutex = "free"
    /\ main' = IF queue = <<>> THEN "stop" ELSE "poll"
    /\ UNCHANGED <<stream, el, shared, builder, taken, graph>>

(* Mutant: the flag is not cleared.                                        *)
StopSilent ==
    /\ main = "stop"
    /\ main' = "join"
    /\ UNCHANGED <<stream, el, shared, builder, taken, graph>>

Stop ==
    /\ main = "stop"
    /\ still_reading' = FALSE
    /\ main' = "join"
    /\ UNCHANGED <<stream, el, queue, mutex, builder, taken, graph>>

(* Mutant: main does not wait for the builder.                             *)
JoinSkipped ==
    /\ main = "join"
    /\ main' = "print"
    /\ UNCHANGED <<stream, el, shared, builder, taken, graph>>

Join ==
    /\ main = "join"
    /\ builder = "exit"
    /\ main' = "print"
    /\ UNCHANGED <<stream, el, shared, builder, taken, graph>>

PrintResult ==
    /\ main = "print"
    /\ main' = "end"
    /\ UNCHANGED <<stream, el, shared, builder, taken, graph>>

-----------------------------------------------------------------------------
(* The builder thread: dequeAndInsertEdge().                               *)

Lock ==
    /\ builder = "lock"
    /\ mutex = "free"
    /\ mutex' = "builder"
    /\ builder' = "test"
    /\ UNCHANGED <<stream, el, queue, still_reading, main, taken, graph>>

(* The loop condition, read with the mutex held; still_reading only falls. *)
Continues == still_reading \/ queue # <<>>

(* Mutant: the newest batch is taken first.                                *)
PopNewest ==
    /\ builder = "test" /\ Continues
    /\ queue # <<>>
    /\ taken' = Last(queue)
    /\ queue' = Front(queue)
    /\ mutex' = "free"
    /\ builder' = "update"
    /\ UNCHANGED <<stream, el, still_reading, main, graph>>

Pop ==
    /\ builder = "test" /\ Continues
    /\ queue # <<>>
    /\ taken' = Head(queue)
    /\ queue' = Tail(queue)
    /\ mutex' = "free"
    /\ builder' = "update"
    /\ UNCHANGED <<stream, el, still_reading, main, graph>>

Sleep ==
    /\ builder = "test" /\ Continues
    /\ queue = <<>>
    /\ mutex' = "free"
    /\ builder' = "lock"
    /\ UNCHANGED <<stream, el, queue, still_reading, main, taken, graph>>

(* Mutant: an edge between two new vertices counts one.                    *)
NewVerticesOncePerEdge(batch) ==
    Cardinality({i \in DOMAIN batch :
                    ~batch[i].sourceExists \/ ~batch[i].destExists})

NewVertices(batch) ==
    Cardinality({i \in DOMAIN batch : ~batch[i].sourceExists})
        + Cardinality({i \in DOMAIN batch : ~batch[i].destExists})

Update ==
    /\ builder = "update"
    /\ num_nodes' = num_nodes + NewVertices(taken)
    /\ applied' = applied \o taken
    /\ taken' = <<>>
    /\ builder' = "perform"
    /\ UNCHANGED <<stream, el, shared, main, computed>>

(* alg.performAlg() sees the graph as it is now.                           *)
PerformAlg ==
    /\ builder = "perform"
    /\ computed' = Len(applied)
    /\ builder' = "lock"
    /\ UNCHANGED <<stream, el, shared, main, taken, num_nodes, applied>>

Exit ==
    /\ builder = "test" /\ ~Continues
    /\ mutex' = "free"
    /\ builder' = "exit"
    /\ UNCHANGED <<stream, el, queue, still_reading, main, taken, graph>>

-----------------------------------------------------------------------------
MainThread ==
    ReadLine \/ ReadPastEnd \/ Push \/ Poll \/ Stop \/ Join \/ PrintResult
BuilderThread == Lock \/ Pop \/ Sleep \/ Update \/ PerformAlg \/ Exit
Terminated == main = "end" /\ UNCHANGED vars

Next == MainThread \/ BuilderThread \/ Terminated

(* The builder sleeps between two looks at an empty queue and main between *)
(* two polls, so neither can keep the mutex from the other forever; but a  *)
(* std::mutex promises nothing about who gets it next.                     *)
Spec == Init /\ [][Next]_vars /\ SF_vars(MainThread) /\ SF_vars(BuilderThread)

-----------------------------------------------------------------------------
(* The lines of a text that are edges, in order.                           *)
EdgeLines(text) ==
    FlattenSeq([i \in DOMAIN text |-> IF text[i] = <<Blank>> THEN <<>> ELSE <<text[i]>>])
NonBlank == EdgeLines(file)

(* Everything the two threads hold, oldest edge first.                     *)
InSystem == applied \o taken \o FlattenSeq(queue) \o el

(* The edges applied, popped, queued and being read, in this order, are    *)
(* the lines read so far, in file order: no batch is lost, repeated or     *)
(* overtaken, and an edge's IDs are the ones its names have for good.      *)
FileOrderKept ==
    /\ Len(InSystem) <= Len(NonBlank)
    /\ \A i \in DOMAIN InSystem :
        /\ InSystem[i].source = VMap[NonBlank[i][1]]
        /\ InSystem[i].destination = VMap[NonBlank[i][2]]

(* num_nodes, which the structures count from the flags, is the number of  *)
(* distinct vertices applied, and their IDs are 0 .. num_nodes - 1: what   *)
(* lets a structure use an ID as an index.                                 *)
NodesCounted ==
    {applied[i].source : i \in DOMAIN applied}
        \cup {applied[i].destination : i \in DOMAIN applied} = 0 .. num_nodes - 1

(* main only prints the structure when the whole file is in it and the     *)
(* algorithm has run on it, although it sets the stop flag without the     *)
(* lock and as soon as it has seen the queue empty.                        *)
PrintedWhenComplete ==
    main \in {"print", "end"} =>
        /\ Len(applied) = Len(NonBlank)
        /\ computed = Len(applied)
        /\ builder = "exit"

(* The program ends.                                                       *)
Terminates == <>(main = "end")
=============================================================================
