--------------------------- MODULE StrategyGraph ---------------------------
(***************************************************************************)
(* Strategy graphs (packages/shared/goodmoneying_shared/                   *)
(* strategy_graph.py): the rules a graph must satisfy to be published and  *)
(* the canonical form its hash is taken of.                                *)
(*                                                                         *)
(* A graph is [nodes, edges, outputs], three sequences.  A node is         *)
(* [id, type, config, inputs, outputs], a port [name, dataType, timeframe],*)
(* an edge [from, fromPort, to, toPort], an output [node, port].  A config *)
(* keeps what the rules read: [policy, look, future, offset, window,       *)
(* warmup, threshold], with 0 for a period that is not given.              *)
(***************************************************************************)
EXTENDS Integers, Sequences, FiniteSets, SequencesExt

NoPort == [name |-> "none"]
NoNumber == -1                   \* a configuration entry that is no integer

MaxWindow == 3                   \* stands for the 10000 periods of an SMA

(* nodes_by_id: of two nodes with one id the later one counts. *)
NodeIds(graph) == {graph.nodes[i].id : i \in DOMAIN graph.nodes}
NodeOf(graph, id) ==
    graph.nodes[Max({i \in DOMAIN graph.nodes : graph.nodes[i].id = id})]

(* _find_port: the first port of the node with that name. *)
FindPort(graph, id, side, name) ==
    IF id \notin NodeIds(graph) THEN NoPort
    ELSE LET ports == NodeOf(graph, id)[side]
             found == {i \in DOMAIN ports : ports[i].name = name}
         IN IF found = {} THEN NoPort ELSE ports[Min(found)]

(* _has_positive_lookahead *)
LooksAhead(config) == config.look > 0 \/ config.future > 0 \/ config.offset < 0

(* The rules of one node in validate_strategy_graph. *)
NodeErrors(node) ==
    LET c == node.config
        sma == node.type = "indicator.sma"
    IN {code \in {"missing_data_policy_required", "look_ahead_detected",
                  "parameter_out_of_range", "insufficient_warmup"} :
          CASE code = "missing_data_policy_required" ->
                  node.type = "dataset.candles" /\ c.policy \notin {"fail", "null", "drop"}
            [] code = "look_ahead_detected" -> LooksAhead(c)
            [] code = "parameter_out_of_range" ->
                  \/ sma /\ c.window \notin 1..MaxWindow
                  \/ node.type = "condition.greater_than" /\ c.threshold = "text"
            [] code = "insufficient_warmup" ->
                  sma /\ c.window # NoNumber /\ c.warmup # NoNumber /\ c.warmup < c.window}

(* The rules of one edge: its ports exist, and agree. *)
EdgeErrors(graph, edge) ==
    LET from == FindPort(graph, edge.from, "outputs", edge.fromPort)
        to == FindPort(graph, edge.to, "inputs", edge.toPort)
    IN IF NoPort \in {from, to} THEN {"port_type_mismatch"}
       ELSE {code \in {"port_type_mismatch", "timeframe_incompatible"} :
               IF code = "port_type_mismatch" THEN from.dataType # to.dataType
               ELSE /\ "any" \notin {from.timeframe, to.timeframe}
                    /\ from.timeframe # to.timeframe}

(* graph_edges: the successors of each node, each one once. *)
Successors(graph, id) ==
    {to \in NodeIds(graph) : \E i \in DOMAIN graph.edges :
        graph.edges[i].from = id /\ graph.edges[i].to = to}

Indegree(graph, id) ==
    Cardinality({from \in NodeIds(graph) : id \in Successors(graph, from)})

(* One turn of the loop of _has_cycle: the first ready node is visited, and *)
(* its successors lose an incoming edge.                                    *)
Visit(graph, s) ==
    IF s.ready = <<>> THEN s
    ELSE LET next == Successors(graph, Head(s.ready))
             left == [n \in NodeIds(graph) |->
                         IF n \in next THEN s.left[n] - 1 ELSE s.left[n]]
         IN [ready |-> Tail(s.ready) \o SetToSeq({n \in next : left[n] = 0}),
             left |-> left,
             visited |-> s.visited + 1]

(* Mutant: the loop stops at the first node that frees no other. *)
CycleByLevel(graph) ==
    LET ids == NodeIds(graph)
        sources == {n \in ids : Indegree(graph, n) = 0}
    IN sources = {} /\ ids # {}

(* _has_cycle: Kahn's count.  A loop of at most one turn per node. *)
HasCycle(graph) ==
    LET ids == NodeIds(graph)
        left == [n \in ids |-> Indegree(graph, n)]
        first == [ready |-> SetToSeq({n \in ids : left[n] = 0}), left |-> left,
                  visited |-> 0]
        last == FoldLeft(LAMBDA s, i : Visit(graph, s), first,
                         [i \in 1..Cardinality(ids) |-> i])
    IN last.visited # Cardinality(ids)

(* validate_strategy_graph, as the set of the codes it reports. *)
Errors(graph) ==
    (IF graph.outputs = <<>> THEN {"missing_output"} ELSE {})
    \union (UNION {NodeErrors(graph.nodes[i]) : i \in DOMAIN graph.nodes})
    \union (UNION {EdgeErrors(graph, graph.edges[i]) : i \in DOMAIN graph.edges})
    \union (IF HasCycle(graph) THEN {"cycle_detected"} ELSE {})
    \union {"missing_output" : i \in {j \in DOMAIN graph.outputs :
              FindPort(graph, graph.outputs[j].node, "outputs", graph.outputs[j].port)
                  = NoPort}}

Valid(graph) == Errors(graph) = {}

-----------------------------------------------------------------------------
(* The canonical form.  Python's sort is stable: what the sort key does not *)
(* tell apart keeps its order in the graph.                                 *)

(* A sequence whose order the sort forgets. *)
Tally(seq) ==
    [e \in {seq[i] : i \in DOMAIN seq} |-> Cardinality({i \in DOMAIN seq : seq[i] = e})]

ByName(ports) ==
    [n \in {ports[i].name : i \in DOMAIN ports} |->
        SelectSeq(ports, LAMBDA p : p.name = n)]

(* _canonical_node, _canonical_port *)
CanonicalNode(node) ==
    [node EXCEPT !.inputs = ByName(node.inputs), !.outputs = ByName(node.outputs)]

(* canonical_strategy_graph_hash, _canonical_graph: nodes in the order of   *)
(* id and type, edges and outputs in the order of all they consist of.      *)
GraphHash(graph) ==
    LET key(n) == <<n.id, n.type>>
        keys == {key(graph.nodes[i]) : i \in DOMAIN graph.nodes}
    IN [nodes |-> [k \in keys |->
                      [i \in DOMAIN SelectSeq(graph.nodes, LAMBDA n : key(n) = k) |->
                          CanonicalNode(SelectSeq(graph.nodes, LAMBDA n : key(n) = k)[i])]],
        edges |-> Tally(graph.edges),
        outputs |-> Tally(graph.outputs)]

-----------------------------------------------------------------------------
(* What "runnable" means, without the algorithm: no node feeds itself, along *)
(* any path, and every output and edge hangs on ports that agree.            *)
FeedsItself(graph) ==
    LET ids == NodeIds(graph)
    IN \E n \in 1..Cardinality(ids) : \E path \in [0..n -> ids] :
          /\ path[0] = path[n]
          /\ \A k \in 1..n : \E i \in DOMAIN graph.edges :
                graph.edges[i].from = path[k - 1] /\ graph.edges[i].to = path[k]

Runnable(graph) ==
    /\ ~FeedsItself(graph)
    /\ graph.outputs # <<>>
    /\ \A i \in DOMAIN graph.nodes : NodeErrors(graph.nodes[i]) = {}
    /\ \A i \in DOMAIN graph.edges : EdgeErrors(graph, graph.edges[i]) = {}
    /\ \A i \in DOMAIN graph.outputs :
          FindPort(graph, graph.outputs[i].node, "outputs", graph.outputs[i].port) # NoPort
=============================================================================
