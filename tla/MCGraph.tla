-------------------------------- MODULE MCGraph --------------------------------
(***************************************************************************)
(* The graph: clients that build functions while it is rewritten under      *)
(* them, and clients whose terms become clauses.  A behaviour is one of a   *)
(* client of either sort.                                                   *)
(***************************************************************************)
EXTENDS Cones

VARIABLES
    builder, graph, references, pass, builds, rewrites,
    part    \* "rewriting" or "clauses"; it never changes

builderVars == <<builder, graph, references, pass, builds, rewrites>>

MCVariables == 1..3
MCBits == {"x", "y"}

\* Nodes of one to three operations over three inputs, rewritten afterwards or
\* built with the two-level rules.
MCBuilders == {
    [gates |-> {"and"}, two_level |-> FALSE, builds |-> 2, rewrites |-> 1],
    [gates |-> {"and", "xor", "mux"}, two_level |-> FALSE, builds |-> 1, rewrites |-> 2],
    [gates |-> {"and", "xor"}, two_level |-> TRUE, builds |-> 2, rewrites |-> 0],
    [gates |-> {"mux"}, two_level |-> TRUE, builds |-> 1, rewrites |-> 0]}

Rewriting == INSTANCE AigClient WITH
    Clients <- MCBuilders, client <- builder, g <- graph, held <- references

\* Terms over two bits, of two gates that are asserted, queried and swept, or of
\* one that is retired and needed again.
MCClients == {
    [gates |-> {"and", "xor"}, builds |-> 2, steps |-> 2, sweeping |-> TRUE,
     retiring |-> FALSE, keep_bits |-> TRUE],
    [gates |-> {"and", "xor"}, builds |-> 1, steps |-> 4, sweeping |-> FALSE,
     retiring |-> TRUE, keep_bits |-> TRUE]}

NoBuilder == CHOOSE c \in MCBuilders : TRUE

MCInit ==
    \/ part = "clauses" /\ Init
       /\ builder = NoBuilder /\ graph = NewGraph(FALSE) /\ references = {}
       /\ pass = Rewriting!NoPass /\ builds = 0 /\ rewrites = 0
    \/ part = "rewriting" /\ Rewriting!Init
       /\ Init /\ client = CHOOSE c \in MCClients : TRUE

MCNext ==
    \/ part = "clauses" /\ Next /\ UNCHANGED <<builderVars, part>>
    \/ part = "rewriting" /\ Rewriting!Next /\ UNCHANGED <<conesVars, part>>

MCSpec == MCInit /\ [][MCNext]_<<conesVars, builderVars, part>>

--------------------------------------------------------------------------------
\* A reference keeps the function that was asked for, whatever is rewritten; the
\* graph stays acyclic, and what is bypassed was counted right.
RefsKeepTheirFunction ==
    Rewriting!RefsKeepTheirFunction /\ Rewriting!ChildrenOlder /\ Rewriting!ParentsExact

\* The models of the clauses give every bound node its value, in each query, and
\* no variable answers for two nodes that are not aliases.
CnfRight == CnfDenotes /\ OwnersAgree
================================================================================
