--------------------------- MODULE LayerExecution ---------------------------
(***************************************************************************)
(* LayerPipeline together with the cluster: a transaction that the node    *)
(* accepted is executed later, or never, since the sender calls            *)
(* sendTransaction and waits for no confirmation.                          *)
(***************************************************************************)
EXTENDS LayerPipeline

VARIABLES
    executed,   \* attempts whose transaction the cluster executed
    expired     \* attempts whose blockhash expired before it did

clusterVars == <<executed, expired>>

\* Accepted by the node, and still to be executed or dropped.
Flying(c) == Submitted(c) \ (executed[c] \cup expired[c])

ClusterInit == executed = NoAttempts /\ expired = NoAttempts

Execute(c) ==
    /\ \E n \in Flying(c) : executed' = [executed EXCEPT ![c] = @ \cup {n}]
    /\ UNCHANGED <<vars, expired>>

Expire(c) ==
    /\ \E n \in Flying(c) : expired' = [expired EXCEPT ![c] = @ \cup {n}]
    /\ UNCHANGED <<vars, executed>>

ExecutionNext ==
    \/ Next /\ UNCHANGED clusterVars
    \/ \E c \in Chunks : Execute(c) \/ Expire(c)

ExecutionSpec ==
    Init /\ ClusterInit /\ [][ExecutionNext]_<<vars, clusterVars>>

-----------------------------------------------------------------------------

\* "Running layer-by-layer respects dependencies", where "edges encode 'must
\* run before'": when a transaction of a layer has been executed, none of a
\* layer before it still waits to be.
LayersExecuteInOrder ==
    \A c, d \in Chunks :
        (LayerOf[d] < LayerOf[c] /\ executed[c] # {}) => Flying(d) = {}

=============================================================================
