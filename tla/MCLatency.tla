----------------------------- MODULE MCLatency -----------------------------
(* Three routines, two of them in drivers; the drivers' addresses known to *)
(* an elevated process and hidden from another.                            *)
EXTENDS LatencySession

SamplesSeen == {[us |-> 90,   addr |-> 11, dpc |-> FALSE],
                [us |-> 700,  addr |-> 24, dpc |-> FALSE],
                [us |-> 1250, addr |-> 3,  dpc |-> TRUE]}

Driver(name, base) == [name |-> name, base |-> base, verified |-> base > 0]

ListsSeen == {{Driver("ndis.sys", 10), Driver("nvlddmkm.sys", 20)},
              {Driver("ndis.sys", 0)}}

=============================================================================
