-------------------------- MODULE MCKernelModules --------------------------
(* The kernel modules, each in behaviours of its own: which says whose. *)
EXTENDS ModuleLifecycle, TcpTrace, Kthreads, PeHashmap1, PeWorkers, CharDeviceMmap

VARIABLE which

MCSock(i, l, r, f) ==
    [id |-> i, num |-> l, dport |-> r, family |-> f, saddr |-> 1, daddr |-> 2]
MCSocks == {MCSock("a", 80, 4000, "inet"), MCSock("b", 80, 4001, "inet6")}

MCParam(l, r, v6) ==
    [local_port |-> l, remote_port |-> r, enable_ipv4 |-> TRUE, enable_ipv6 |-> v6]
MCParams == {MCParam(80, 0, TRUE), MCParam(0, 4000, FALSE), MCParam(65536, 4001, TRUE)}

MCCalledSets == {{k, tcp_close} : k \in Kretprobes}
MCBucketOf == [k \in MapKeys |-> CHOOSE b \in MapBuckets : TRUE]

Init ==
    /\ which \in {"lifecycle", "trace", "kthread", "map", "workers", "device"}
    /\ KmodInit /\ TraceInit /\ KthInit /\ Pe1Init /\ WorkersInit /\ DevInit

Next ==
    /\ UNCHANGED which
    /\ \/ /\ which = "lifecycle" /\ KmodNext
          /\ UNCHANGED <<traceVars, kthVars, pe1Vars, workerVars, devVars>>
       \/ /\ which = "trace" /\ TraceNext
          /\ UNCHANGED <<kmodVars, kthVars, pe1Vars, workerVars, devVars>>
       \/ /\ which = "kthread" /\ KthNext
          /\ UNCHANGED <<kmodVars, traceVars, pe1Vars, workerVars, devVars>>
       \/ /\ which = "map" /\ Pe1Next
          /\ UNCHANGED <<kmodVars, traceVars, kthVars, workerVars, devVars>>
       \/ /\ which = "workers" /\ WorkersNext
          /\ UNCHANGED <<kmodVars, traceVars, kthVars, pe1Vars, devVars>>
       \/ /\ which = "device" /\ DevNext
          /\ UNCHANGED <<kmodVars, traceVars, kthVars, pe1Vars, workerVars>>

vars == <<which, kmodVars, traceVars, kthVars, pe1Vars, workerVars, devVars>>

Spec == Init /\ [][Next]_vars /\ KmodFair /\ KthFair

\* Calls of the system return: insmod and rmmod of every module, with those of
\* the thread examples waiting for their threads, whose ticks are all seen.
CallsReturn == ModuleCallsReturn /\ InsmodReturns /\ RmmodReturns /\ TickSeen

\* The locked map has its objects in the map, in somebody's hands or back in
\* the cache, and what its test programs report as errors another worker's
\* calls explain.
HashmapSound == CacheExact /\ ErrorsExplained

=============================================================================
