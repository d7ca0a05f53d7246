-------------------------------- MODULE McpBridge --------------------------------
(***************************************************************************)
(* The MCP bridge of mcp/bridge.go: AddServer starts a tool server and     *)
(* asks it for its tools, CallTool and handleToolCall send it a request    *)
(* line and read the answer line, Stop kills the servers.  A server's      *)
(* mutex guards its pipes; sync.Mutex is not reentrant, so a goroutine     *)
(* that locks what it holds waits for itself.                              *)
(*                                                                         *)
(* Each goroutine runs a plan, the steps of the functions it calls in      *)
(* their order; a step that fails releases the mutex and ends the call.    *)
(***************************************************************************)
EXTENDS Naturals, Sequences

CONSTANTS
    MCPServer,   \* tool servers, each added once
    Caller,      \* goroutines that call a tool, each once
    Stopper,     \* the goroutine that stops the bridge
    None

Adder == MCPServer     \* AddServer of a server, named by it
Goroutine == Adder \cup Caller \cup {Stopper}

VARIABLES
    mu,        \* per server: the goroutine that holds s.mu, or None
    process,   \* per server: "none", "running" or "killed"
    lines,     \* per server: answer lines not read yet
    tools,     \* the servers whose tools are registered
    plan,      \* per goroutine: the steps it still has to take
    on,        \* per goroutine: the server it works with, or None
    result     \* per goroutine: "none", "ok" or "error"

vars == <<mu, process, lines, tools, plan, on, result>>

\* Every variable has its type.
TypeOK ==
    /\ mu \in [MCPServer -> Goroutine \cup {None}]
    /\ process \in [MCPServer -> {"none", "running", "killed"}]
    /\ lines \in [MCPServer -> Nat]
    /\ tools \subseteq MCPServer
    /\ on \in [Goroutine -> MCPServer \cup {None}]
    /\ result \in [Goroutine -> {"none", "ok", "error"}]

call == <<"lock", "write", "read", "unlock">>
send == <<"lock", "notify", "unlock">>
initialize == call \o send
Start == <<"lock", "exec">> \o initialize \o <<"unlock">>
ListTools == call
AddServer == Start \o ListTools \o <<"register">>
CallTool == <<"find">> \o call
Stop == <<"lock", "kill", "unlock">>

Init ==
    /\ mu = [s \in MCPServer |-> None]
    /\ process = [s \in MCPServer |-> "none"]
    /\ lines = [s \in MCPServer |-> 0]
    /\ tools = {}
    /\ plan = [g \in Goroutine |-> IF g \in Adder THEN AddServer
                                   ELSE IF g \in Caller THEN CallTool ELSE <<>>]
    /\ on = [g \in Goroutine |-> IF g \in Adder THEN g ELSE None]
    /\ result = [g \in Goroutine |-> "none"]

--------------------------------------------------------------------------------

At(g, step) == result[g] = "none" /\ plan[g] # <<>> /\ Head(plan[g]) = step
Goes(g) == plan' = [plan EXCEPT ![g] = Tail(@)]

\* AddServer stops the server whose tools it cannot list.
Cleanup(g) ==
    IF g \in Adder /\ Len(plan[g]) <= Len(ListTools) + 1 THEN Stop \o <<"give up">> ELSE <<>>

\* The deferred unlocks of a call that fails.
Fails(g, step) ==
    /\ At(g, step)
    /\ mu' = [s \in MCPServer |-> IF mu[s] = g THEN None ELSE mu[s]]
    /\ plan' = [plan EXCEPT ![g] = Cleanup(g)]
    /\ result' = [result EXCEPT ![g] = IF Cleanup(g) = <<>> THEN "error" ELSE @]
    /\ UNCHANGED <<process, lines, tools, on>>

GiveUp(g) ==
    /\ At(g, "give up")
    /\ result' = [result EXCEPT ![g] = "error"]
    /\ Goes(g)
    /\ UNCHANGED <<mu, process, lines, tools, on>>

Lock(g) ==
    /\ At(g, "lock") /\ mu[on[g]] = None
    /\ mu' = [mu EXCEPT ![on[g]] = g]
    /\ Goes(g)
    /\ UNCHANGED <<process, lines, tools, on, result>>

Unlock(g) ==
    /\ At(g, "unlock")
    /\ mu' = [mu EXCEPT ![on[g]] = None]
    /\ Goes(g)
    /\ UNCHANGED <<process, lines, tools, on, result>>

\* The pipes are made and the command is started, or one of them fails.
Exec(g) ==
    /\ At(g, "exec")
    /\ process' = [process EXCEPT ![on[g]] = "running"]
    /\ Goes(g)
    /\ UNCHANGED <<mu, lines, tools, on, result>>

\* A request line; the tool server will answer it with a line.
sendLocked(g) ==
    /\ At(g, "write") /\ process[on[g]] = "running"
    /\ lines' = [lines EXCEPT ![on[g]] = @ + 1]
    /\ Goes(g)
    /\ UNCHANGED <<mu, process, tools, on, result>>

\* The initialized notification has no answer.
Notify(g) ==
    /\ At(g, "notify") /\ process[on[g]] = "running"
    /\ Goes(g)
    /\ UNCHANGED <<mu, process, lines, tools, on, result>>

\* The next line is taken for the answer.
readLocked(g) ==
    /\ At(g, "read") /\ lines[on[g]] > 0
    /\ lines' = [lines EXCEPT ![on[g]] = @ - 1]
    /\ Goes(g)
    /\ UNCHANGED <<mu, process, tools, on, result>>

IOFails(g) ==
    /\ on[g] # None /\ process[on[g]] = "killed"
    /\ Fails(g, "write") \/ Fails(g, "read") \/ Fails(g, "notify")

\* Bridge.Stop holds b.mu while it waits for a server's mutex.
Unlocked == plan[Stopper] = <<>>

Register(g) ==
    /\ At(g, "register") /\ Unlocked
    /\ tools' = tools \cup {on[g]}
    /\ Goes(g)
    /\ UNCHANGED <<mu, process, lines, on, result>>

\* CallTool looks the tool up.
Find(g) ==
    /\ At(g, "find") /\ Unlocked
    /\ \E s \in tools : on' = [on EXCEPT ![g] = s]
    /\ Goes(g)
    /\ UNCHANGED <<mu, process, lines, tools, result>>

NotFound(g) == tools = {} /\ Unlocked /\ Fails(g, "find")

\* Bridge.Stop goes through the servers that are registered.
BridgeStop ==
    /\ Unlocked
    /\ \E s \in {t \in tools : process[t] = "running"} :
           on' = [on EXCEPT ![Stopper] = s]
    /\ plan' = [plan EXCEPT ![Stopper] = Stop]
    /\ UNCHANGED <<mu, process, lines, tools, result>>

Kill(g) ==
    /\ At(g, "kill")
    /\ process' = [process EXCEPT ![on[g]] = "killed"]
    /\ Goes(g)
    /\ UNCHANGED <<mu, lines, tools, on, result>>

Return(g) ==
    /\ g # Stopper /\ result[g] = "none" /\ plan[g] = <<>>
    /\ result' = [result EXCEPT ![g] = "ok"]
    /\ UNCHANGED <<mu, process, lines, tools, plan, on>>

Step(g) ==
    \/ Lock(g) \/ Unlock(g) \/ Exec(g) \/ Fails(g, "exec") \/ sendLocked(g)
    \/ readLocked(g) \/ Notify(g) \/ IOFails(g) \/ Register(g) \/ Find(g) \/ NotFound(g)
    \/ Kill(g) \/ GiveUp(g) \/ Return(g)

Next == BridgeStop \/ \E g \in Goroutine : Step(g)

Spec == Init /\ [][Next]_vars /\ \A g \in Goroutine : WF_vars(Step(g))

--------------------------------------------------------------------------------

\* "AddServer adds and starts an MCP server": with a tool server that answers
\* every request line, AddServer returns.
AddServerReturns == \A s \in Adder : result[s] = "none" ~> result[s] # "none"
================================================================================
