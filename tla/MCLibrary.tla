----------------------------- MODULE MCLibrary -----------------------------
(***************************************************************************)
(* The parts the client and the server are made of, each on its own for    *)
(* every sequence of calls: a behaviour exercises one part and leaves the  *)
(* others as they were constructed.                                        *)
(***************************************************************************)
EXTENDS ThreadQueue, ByteBuffer, TimeoutQueue, ThreadData, CoroutineList, BufferWriter,
        Singleton, HeartBeat, CommandStart

CONSTANTS admin, h1, h2, h3      \* the AdminAdapter and the handles

(* The AdminAdapter has one handle, an adapter of the server several.      *)
MCAdapterOf == [h \in {h1, h2, h3} |-> IF h = h1 THEN admin ELSE "servant"]
MCAdapter == {admin, "servant"}

VARIABLE part

dataVars == <<threadQueueVars, bufferVars, queueVars, threadVars>>
moreVars == <<listVars, writerVars, singletonVars, beatVars, startVars>>
libraryVars == <<part, dataVars, moreVars>>

Parts == {"threadQueue", "buffer", "timeoutQueue", "numbers", "threads",
          "list", "writer", "singleton", "heartbeat", "start"}

Init ==
    /\ part \in Parts
    /\ ThreadQueueInit /\ BufferInit /\ QueueInit
    /\ ThreadInit
    /\ part # "threads" => nextKey = 0
    /\ ListInit /\ WriterInit
    /\ SingletonInit
    /\ part # "singleton" => policy = "Default"
    /\ BeatInit
    /\ part # "heartbeat" => nodePrx = "null" /\ seconds = 0
    /\ StartInit

ThreadQueueStep ==
    /\ part = "threadQueue" /\ ThreadQueueNext
    /\ UNCHANGED <<part, bufferVars, queueVars, threadVars, moreVars>>
BufferStep ==
    /\ part = "buffer" /\ BufferNext
    /\ UNCHANGED <<part, threadQueueVars, queueVars, threadVars, moreVars>>
QueueStep ==
    /\ part = "timeoutQueue" /\ QueueNext
    /\ UNCHANGED <<part, threadQueueVars, bufferVars, threadVars, moreVars>>
ThreadStep ==
    /\ part = "threads" /\ ThreadNext
    /\ UNCHANGED <<part, threadQueueVars, bufferVars, queueVars, moreVars>>
NumberStep ==
    /\ part = "numbers" /\ SeqNext
    /\ UNCHANGED <<part, threadQueueVars, bufferVars, queueVars, key, nextKey, specific,
                   netSeq, doing, pSptd, used, moreVars>>
ListStep ==
    /\ part = "list" /\ ListNext
    /\ UNCHANGED <<part, dataVars, writerVars, singletonVars, beatVars, startVars>>
WriterStep ==
    /\ part = "writer" /\ WriterNext
    /\ UNCHANGED <<part, dataVars, listVars, singletonVars, beatVars, startVars>>
SingletonStep ==
    /\ part = "singleton" /\ SingletonNext
    /\ UNCHANGED <<part, dataVars, listVars, writerVars, beatVars, startVars>>
BeatStep ==
    /\ part = "heartbeat" /\ BeatNext
    /\ UNCHANGED <<part, dataVars, listVars, writerVars, singletonVars, startVars>>
StartStep ==
    /\ part = "start" /\ StartNext
    /\ UNCHANGED <<part, dataVars, listVars, writerVars, singletonVars, beatVars>>

Next ==
    \/ ThreadQueueStep \/ BufferStep \/ QueueStep \/ ThreadStep \/ NumberStep
    \/ ListStep \/ WriterStep \/ SingletonStep \/ BeatStep \/ StartStep

Spec == Init /\ [][Next]_libraryVars
==============================================================================
