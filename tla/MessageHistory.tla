---------------------------- MODULE MessageHistory ----------------------------
(***************************************************************************)
(* The history of a conversation (message_history.py), in memory or in the *)
(* database, where it is a session node, the messages, and a linked list:  *)
(* a LAST_MESSAGE relationship from the session and NEXT relationships     *)
(* from each message to the one after it. A query of the database takes    *)
(* effect at once; two that add to one session at the same time, each      *)
(* having read the last message before the other wrote, are left out.      *)
(*                                                                         *)
(* A history is [kind, list] (kind "memory", or "list" for messages that   *)
(* the user passes) or [kind, session, nodes, next, last, window]: whether *)
(* the session node is there, the messages by their node, pairs of nodes   *)
(* and the node the session points to, if any; a window of 0 is no window. *)
(***************************************************************************)
EXTENDS Integers, Sequences, SequencesExt, FiniteSetsExt

VARIABLES
    history,     \* the history, as it is stored
    added        \* the messages added to it since it was last cleared

historyVars == <<history, added>>

InMemory(messages) == [kind |-> "memory", list |-> messages]
\* Neo4jMessageHistory.__init__ merges the session node.
InDatabase(window) ==
    [kind |-> "neo4j", session |-> TRUE, nodes |-> <<>>, next |-> {}, last |-> {},
     window |-> window]

\* The nodes that at most hops NEXT relationships separate from a node, from the
\* farthest on, and all of them for a negative number: chain[n] has those of n.
Chain(h, node, hops) ==
    LET most == IF hops < 0 THEN Len(h.nodes) ELSE hops
        Previous(next) == {m \in DOMAIN h.nodes : <<m, next>> \in h.next}
        chain[n \in 0..most] ==
            IF n = 0 THEN <<node>>
            ELSE IF Previous(Head(chain[n - 1])) = {} THEN chain[n - 1]
            ELSE <<Min(Previous(Head(chain[n - 1])))>> \o chain[n - 1]
    IN  chain[most]

\* Mutant: the window counts the relationships.
WindowOfHops(h) ==
    IF h.kind # "neo4j" THEN h.list
    ELSE IF ~h.session \/ h.last = {} THEN <<>>
    ELSE LET chain == Chain(h, Min(h.last), IF h.window = 0 THEN -1 ELSE h.window)
         IN  [i \in DOMAIN chain |-> h.nodes[chain[i]]]
Messages(h) ==
    IF h.kind # "neo4j" THEN h.list
    ELSE IF ~h.session \/ h.last = {} THEN <<>>
    ELSE LET chain == Chain(h, Min(h.last), h.window - 1)
         IN  [i \in DOMAIN chain |-> h.nodes[chain[i]]]

\* Nothing is added when the session node is not there.
AddMessage(h, message) ==
    IF h.kind # "neo4j" THEN [h EXCEPT !.list = Append(@, message)]
    ELSE IF ~h.session THEN h
    ELSE LET new == Len(h.nodes) + 1
         IN  [h EXCEPT !.nodes = Append(@, message), !.last = {new},
                       !.next = @ \cup {<<last, new>> : last \in h.last}]
\* Mutant: in memory too they are added one by one.
AddsOneByOne(h) == FALSE
\* In memory all the messages are added at once; in the database one by one, and other
\* clients come in between.
AddsAtOnce(h) == h.kind # "neo4j"
AddMessages(h, messages) ==
    LET after[n \in 0..Len(messages)] ==
            IF n = 0 THEN h ELSE AddMessage(after[n - 1], messages[n])
    IN  IF h.kind # "neo4j" THEN [h EXCEPT !.list = @ \o messages] ELSE after[Len(messages)]

Clear(h, deleteSession) ==
    IF h.kind # "neo4j" THEN [h EXCEPT !.list = <<>>]
    ELSE [InDatabase(h.window) EXCEPT !.session = h.session /\ ~deleteSession]

-----------------------------------------------------------------------------
(* What the clients of a history do.                                       *)

\* It starts with the messages that h stores, whether its window holds them or not.
HistoryStarts(h) == history = h /\ added = IF h.kind = "neo4j" THEN h.nodes ELSE h.list

Add(messages) ==
    /\ history' = AddMessages(history, messages)
    /\ added' = IF history.kind = "neo4j" /\ ~history.session THEN added ELSE added \o messages
ClearHistory(deleteSession) == history' = Clear(history, deleteSession) /\ added' = <<>>

\* The histories that there are before it is used, and the steps of its clients, which add
\* messages of any kind: a composing module has those of its jobs.
HistoryInit ==
    \E Message : \E messages \in Seq(Message), window \in Nat :
        \/ HistoryStarts(InMemory(messages))
        \/ HistoryStarts([InMemory(messages) EXCEPT !.kind = "list"])
        \/ HistoryStarts(AddMessages(InDatabase(window), messages))
HistoryNext ==
    \/ \E Message : \E messages \in Seq(Message) : Add(messages)
    \/ \E deleteSession \in BOOLEAN : ClearHistory(deleteSession)
HistorySpec == HistoryInit /\ [][HistoryNext]_historyVars

-----------------------------------------------------------------------------
\* message_history.py: a history gives back what was added to it since it was last
\* cleared, in order, or the last of it that its window holds, however its clients take
\* turns.
HistoryIsKept ==
    LET most == IF history.kind = "neo4j" THEN history.window ELSE 0
    IN  Messages(history) = IF most = 0 \/ Len(added) <= most THEN added
                            ELSE SubSeq(added, Len(added) - most + 1, Len(added))
=============================================================================
