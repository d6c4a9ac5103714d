----------------------------- MODULE ParquetWriter -----------------------------
(***************************************************************************)
(* ParquetWriter (components/kg_writer.py) with the file names of           *)
(* Neo4jGraphParquetFormatter (components/parquet_formatter.py) and         *)
(* FilenameCollisionHandler: a graph becomes one file per node label and    *)
(* one per kind of relationship, written one after the other to a           *)
(* destination.  Several runs share the event loop, the destination and the *)
(* collision counts of the class; a run gives way only while a file is      *)
(* being written.                                                           *)
(*                                                                          *)
(* A file name is the sequence of its parts between underscores:            *)
(* Person_1 is <<"Person", "1">> and Person__2 is <<"Person", "", "2">>.    *)
(***************************************************************************)
EXTENDS Integers, Sequences, FiniteSets, SequencesExt, TLC

CONSTANTS
    Runs,
    Graphs,      \* [labels |-> sequence of labels, kinds |-> sequence of
                 \*  <<head label, type, tail label>>], without repetitions
    Parts,       \* a label or type made safe, as parts; one without any safe
                 \* character is <<"">>
    Prefix,      \* parts of the file name prefix, <<>> if there is none
    NodesPath, RelsPath,
    WritesFail   \* a destination may refuse a file

Names == DOMAIN Parts

ASSUME ConstantsAssumption ==
    /\ WritesFail \in BOOLEAN
    /\ Prefix \in Seq(STRING) /\ \A name \in Names : Parts[name] \in Seq(STRING)
    /\ \A g \in Graphs :
         /\ g.labels \in Seq(Names) /\ g.kinds \in Seq(Names \X Names \X Names)
         /\ IsInjective(g.labels) /\ IsInjective(g.kinds)

VARIABLES
    counts,      \* collision counts of the class, per path and name
    graph,       \* per run: the graph it is called with
    files,       \* what the destinations hold: path and name to content
    run,         \* per run: "new", "await", "landed", "SUCCESS" or "FAILURE"
    todo,        \* per run: the files still to write, the current one first
    entries      \* per run: the descriptions of the files written

vars == <<graph, counts, files, run, todo, entries>>

Gap == ""              \* the part between two underscores
Unnamed == "unnamed"
Sanitized(parts) == IF parts = <<Gap>> THEN <<Unnamed>> ELSE parts

\* Mutant: a stem that is taken is handed out again
DisambiguateNever(stem, used) == stem

\* How a number is written at the end of a name.
Numeral(n) == ToString(n)
Numbered(stem, n) == IF n = 1 THEN stem ELSE stem \o <<Gap, Numeral(n)>>

\* The stem, or the first of stem__2, stem__3, ... that is not taken.
Disambiguate(stem, used) ==
    Numbered(stem, CHOOSE n \in 1..(Cardinality(used) + 1) :
                       /\ Numbered(stem, n) \notin used
                       /\ \A k \in 1..(n - 1) : Numbered(stem, k) \in used)

\* One after the other, each against those before it.
Stems(names) ==
    LET stem[n \in DOMAIN names] ==
            Disambiguate(Sanitized(names[n]), {stem[k] : k \in 1..(n - 1)})
    IN stem

NodeNames(g) == [n \in DOMAIN g.labels |-> Prefix \o Parts[g.labels[n]]]
RelNames(g) == [n \in DOMAIN g.kinds |->
    Prefix \o Parts[g.kinds[n][1]] \o Parts[g.kinds[n][2]] \o Parts[g.kinds[n][3]]]
NodeStems(g) == Stems(NodeNames(g))
RelStems(g) == Stems(RelNames(g))

\* The keys of a dictionary filled in this order, and the place of the value a
\* key has in the end.
Keys(names) ==
    LET keys[n \in 0..Len(names)] ==
            IF n = 0 THEN <<>>
            ELSE IF \E k \in 1..(n - 1) : names[k] = names[n] THEN keys[n - 1]
            ELSE Append(keys[n - 1], names[n])
    IN keys[Len(names)]
Place(names, name) == Max({n \in DOMAIN names : names[n] = name})

\* Mutant: the description of the last file stands for all
AboutLast(g, name) == IF Contains(RelStems(g), name)
                      THEN <<"rel", Len(RelStems(g))>> ELSE <<"node", Len(NodeStems(g))>>

\* What a file is described by: one dictionary for both kinds of files.
About(g, name) == IF Contains(RelStems(g), name)
                  THEN <<"rel", Place(RelStems(g), name)>>
                  ELSE <<"node", Place(NodeStems(g), name)>>

\* The files of a graph in the order they are written.
FormatGraph(g) ==
    LET file(path, kind, names, name) ==
            [path |-> path, name |-> name,
             of |-> <<kind, Place(names, name)>>, about |-> About(g, name)]
        nodes == Keys(NodeStems(g))
        rels == Keys(RelStems(g))
    IN [n \in DOMAIN nodes |-> file(NodesPath, "node", NodeStems(g), nodes[n])]
       \o [n \in DOMAIN rels |-> file(RelsPath, "rel", RelStems(g), rels[n])]

\* A relationship with an end that is not in the graph makes format_graph raise.
Dangling(g) == \E n \in DOMAIN g.kinds : {g.kinds[n][1], g.kinds[n][3]} \ ToSet(g.labels) # {}

Init ==
    /\ counts = <<>>
    /\ files = <<>>
    /\ graph \in [Runs -> Graphs]
    /\ run = [r \in Runs |-> "new"]
    /\ todo = [r \in Runs |-> <<>>]
    /\ entries = [r \in Runs |-> <<>>]

Put(dict, key, value) ==
    [k \in DOMAIN dict \cup {key} |-> IF k = key THEN value ELSE dict[k]]

\* Mutant: the second name asked for is handed out again
CountTwice(path, base) == IF <<path, base>> \in DOMAIN counts THEN 1 ELSE 0

\* get_unique_filename: how often the name was asked for before.
Count(path, base) == IF <<path, base>> \in DOMAIN counts
                     THEN counts[<<path, base>>] + 1 ELSE 0

UniqueName(base, n) == IF n = 0 THEN base ELSE Append(base, Numeral(n))

\* Mutant: a run that is done keeps its last file as the current one
NextFileKept(r, left) ==
    \/ /\ left = <<>>
       /\ run' = [run EXCEPT ![r] = "SUCCESS"]
       /\ UNCHANGED <<counts, todo>>
    \/ /\ left # <<>>
       /\ run' = [run EXCEPT ![r] = "await"]
       /\ LET f == Head(left)
              n == Count(f.path, f.name)
          IN /\ counts' = Put(counts, <<f.path, f.name>>, n)
             /\ todo' = [todo EXCEPT ![r] =
                            <<[f EXCEPT !.name = UniqueName(@, n)]>> \o Tail(left)]

\* The run takes the name of its next file and begins to write it, or has
\* written everything.
NextFile(r, left) ==
    \/ /\ left = <<>>
       /\ run' = [run EXCEPT ![r] = "SUCCESS"]
       /\ todo' = [todo EXCEPT ![r] = <<>>]
       /\ UNCHANGED counts
    \/ /\ left # <<>>
       /\ run' = [run EXCEPT ![r] = "await"]
       /\ LET f == Head(left)
              n == Count(f.path, f.name)
          IN /\ counts' = Put(counts, <<f.path, f.name>>, n)
             /\ todo' = [todo EXCEPT ![r] =
                            <<[f EXCEPT !.name = UniqueName(@, n)]>> \o Tail(left)]

Start(r) ==
    /\ run[r] = "new"
    /\ ~Dangling(graph[r])
    /\ NextFile(r, FormatGraph(graph[r]))
    /\ UNCHANGED <<graph, files, entries>>

StartFails(r) ==
    /\ run[r] = "new"
    /\ Dangling(graph[r])
    /\ run' = [run EXCEPT ![r] = "FAILURE"]
    /\ UNCHANGED <<graph, counts, files, todo, entries>>

\* The destination stores the file, over one that has the name.
Lands(r) ==
    /\ run[r] = "await"
    /\ LET f == Head(todo[r]) IN files' = Put(files, <<f.path, f.name>>, <<r, f.of>>)
    /\ run' = [run EXCEPT ![r] = "landed"]
    /\ UNCHANGED <<graph, counts, todo, entries>>

\* Back in the run: the file is described and the next one begun.
Resume(r) ==
    /\ run[r] = "landed"
    /\ entries' = [entries EXCEPT ![r] = Append(@, Head(todo[r]))]
    /\ NextFile(r, Tail(todo[r]))
    /\ UNCHANGED <<graph, files>>

\* The destination raises, whether it stored the file or not: what was written
\* and counted stays.
Fail(r) ==
    /\ WritesFail
    /\ run[r] \in {"await", "landed"}
    /\ run' = [run EXCEPT ![r] = "FAILURE"]
    /\ todo' = [todo EXCEPT ![r] = <<>>]
    /\ UNCHANGED <<graph, counts, files, entries>>

Done == \A r \in Runs : run[r] \in {"SUCCESS", "FAILURE"}

Next == \/ \E r \in Runs : Start(r) \/ StartFails(r) \/ Lands(r) \/ Resume(r) \/ Fail(r)
        \/ Done /\ UNCHANGED vars

Spec == Init /\ [][Next]_vars

------------------------------------------------------------------------------
TypeOK ==
    /\ \A k \in DOMAIN counts : k[1] \in {NodesPath, RelsPath} /\ counts[k] \in Nat
    /\ \A k \in DOMAIN files : k[1] \in {NodesPath, RelsPath} /\ files[k][1] \in Runs
    /\ graph \in [Runs -> Graphs]
    /\ run \in [Runs -> {"new", "await", "landed", "SUCCESS", "FAILURE"}]
    /\ \A r \in Runs : (todo[r] # <<>>) <=> (run[r] \in {"await", "landed"})

\* A file that a run has described is still there with the run's own content:
\* no later file of the run and no other run wrote over it
\* (parquet_formatter.py:109-114, filename_collision_handler.py:51).
NothingOverwritten ==
    \A r \in Runs : \A e \in ToSet(entries[r]) : files[<<e.path, e.name>>] = <<r, e.of>>

\* A run that succeeds has described one file per node label and per kind of
\* relationship of its graph, also where their names made safe are the same.
EveryPartHasItsFile ==
    \A r \in Runs : run[r] = "SUCCESS" =>
        {e.of : e \in ToSet(entries[r])} = {<<"node", n>> : n \in DOMAIN graph[r].labels}
                                           \cup {<<"rel", n>> : n \in DOMAIN graph[r].kinds}

\* The columns, keys and constraints in the description of a file are those of
\* its content (kg_writer.py:141-151).
OwnDescription(e) == e.about = e.of
EachDescribesItsOwn == \A r \in Runs : \A e \in ToSet(entries[r]) : OwnDescription(e)

\* The same, but for a label that has the stem of a kind of relationship of its graph:
\* its file is described as that relationship's, and no other file is described as
\* anything else (kg_writer.py:404).
Namesake(g, e) == /\ e.of[1] = "node" /\ e.about[1] = "rel"
                  /\ NodeStems(g)[e.of[2]] = RelStems(g)[e.about[2]]
DescribesItsFile ==
    \A r \in Runs : \A e \in ToSet(entries[r]) : OwnDescription(e) \/ Namesake(graph[r], e)

\* Every part of the graph of a run that succeeds is in one file that is described as
\* what it is (ParquetWriter.run).
FilesDescribed == TypeOK /\ EveryPartHasItsFile /\ DescribesItsFile
===============================================================================
