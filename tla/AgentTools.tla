------------------------------ MODULE AgentTools ------------------------------
(***************************************************************************)
(* The investigation graph and two of its tools side by side.  They share  *)
(* no variable: what the graph needs of a tool it takes from the findings  *)
(* that tool's rules can have.  One of the three runs in a behaviour, and  *)
(* the other two stay as they start.                                       *)
(***************************************************************************)
EXTENDS AgentGraph, RugpullTool, AmlRules, Tracing

VARIABLE runs  \* the one that runs

allVars == <<runs, vars, toolVars, traceVars>>

GraphWaits == Init /\ depth = 1
TracerWaits == TraceInit /\ hops = 1 /\ queue = <<>>

ToolsInit ==
  \/ runs = "graph" /\ Init /\ ToolInit /\ TracerWaits
  \/ runs = "rug-pull tool" /\ GraphWaits /\ ToolInit /\ TracerWaits
  \/ runs = "tracer" /\ GraphWaits /\ ToolInit /\ TraceInit

GraphStep == runs = "graph" /\ Next /\ UNCHANGED <<runs, toolVars, traceVars>>
ToolStep == runs = "rug-pull tool" /\ ToolNext /\ UNCHANGED <<runs, vars, traceVars>>
TracerStep == runs = "tracer" /\ TraceNext /\ UNCHANGED <<runs, vars, toolVars>>

\* As FairSpec of AgentGraph; the safety of the tools needs no fairness.
ToolsSpec ==
  /\ ToolsInit
  /\ [][GraphStep \/ ToolStep \/ TracerStep]_allVars
  /\ WF_allVars(GraphStep)

----------------------------------------------------------------------------
(* Properties *)

\* A run of the graph ends (AgentGraph).
GraphCompletes == runs = "graph" => Completes

\* While the chain grows by one transaction, the AML alarms on amounts, speed,
\* fan-out, dormancy and round sums stay, although the profile is cut to one
\* page (profiler_node) and each rule looks at it afresh.  Within a day: the
\* block a profile starts at moves on with the date.
AmlAlarmsStay ==
  [][\A w \in Wallets :
       LET profile == Page(Listed(w, "normal"))
       IN  profile' # profile => Outlasts(AmlResults(w, profile', Now), AmlResults(w, profile, Now))]_chain
===============================================================================
