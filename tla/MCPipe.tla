------------------------------- MODULE MCPipe -------------------------------
(* One interface with its event-loop thread and a diagnostics thread.      *)
EXTENDS PipeTransport

CONSTANTS ui, diagnostics

\* The event loop sends what the synchronous buttons send, and the shutdown that
\* administrative tools send; the other thread runs the long diagnostics.
Buttons ==
    [c \in {ui, diagnostics} |->
        IF c = ui THEN {"ApplyOptimizations", "LaunchOptimizedGame", "ShutdownDaemon"}
        ELSE {"RunBufferbloatTest"}]

=============================================================================
