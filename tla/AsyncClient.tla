----------------------------- MODULE AsyncClient ----------------------------
(***************************************************************************)
(* A client made by creatTcpClient on a loop of a group whose other        *)
(* requests keep the Resolver busy: the Resolver, whose answer to one of   *)
(* its requests is the start of the TcpClient.                             *)
(***************************************************************************)
EXTENDS Resolver

CONSTANT Home  \* the loop that asks for the client

ASSUME HomeAssumption == Home \in Loops

VARIABLES
    client,     \* the request made for the client, or 0
    clientPc, loop, startedBy, connector, clientRefs, chanRefs, sockRefs,
    connRefs, bound, wants, calls

Client == INSTANCE TcpClient WITH pc <- clientPc, Udp <- FALSE

resolverVars == vars
clientState == <<clientPc, loop, startedBy, connector, clientRefs, chanRefs,
                 sockRefs, connRefs, bound, wants, calls>>
clientVars == <<client, clientState>>
allVars == <<resolverVars, clientVars>>

AllInit == Init /\ Client!Init /\ client = 0

-----------------------------------------------------------------------------

\* creatTcpClient, on the thread of Home.
CreateClient ==
    /\ client = 0
    /\ AsyncResolve(Home)
    /\ client' = Last(asked'[Home])
    /\ UNCHANGED clientState

AskElse == (\E l \in Loops : AsyncResolve(l)) /\ UNCHANGED clientVars

Mine(l) == l = Home /\ handlers[l] # <<>> /\ Head(handlers[l]) = client

\* The handler given to async_resolve.
RunClientHandler ==
    /\ Mine(Home)
    /\ RunHandler(Home)
    /\ Client!Answer
    /\ UNCHANGED client

RunElse(l) == ~Mine(l) /\ RunHandler(l) /\ UNCHANGED clientVars

\* The loops of a group that has ended do nothing more.
ClientLoopStep == alive /\ Client!LoopStep /\ UNCHANGED <<client, resolverVars>>
ClientDestroyConn == alive /\ Client!DestroyConn /\ UNCHANGED <<client, resolverVars>>

ApplicationStep ==
    /\ client # 0
    /\ Client!ApplicationStep
    /\ UNCHANGED <<client, resolverVars>>

ResolverThread == (ThreadStep \/ SpuriousWakeup) /\ UNCHANGED clientVars
End == (EndGroup \/ ExitStep \/ Exited) /\ UNCHANGED clientVars

AllNext ==
    \/ CreateClient \/ AskElse
    \/ RunClientHandler \/ (\E l \in Loops : RunElse(l))
    \/ ClientLoopStep \/ ClientDestroyConn \/ ApplicationStep
    \/ ResolverThread \/ End

\* Threads are scheduled, getaddrinfo returns, and the kernel ends every attempt
\* to connect one way or the other.
AllFairness ==
    /\ WF_allVars(ThreadStep /\ UNCHANGED clientVars)
    /\ WF_allVars(ExitStep /\ UNCHANGED clientVars)
    /\ WF_allVars(RunClientHandler) /\ WF_allVars(ClientLoopStep)
    /\ \A l \in Loops : WF_allVars(RunElse(l))

AllSpec == AllInit /\ [][AllNext]_allVars /\ AllFairness

-----------------------------------------------------------------------------
(* Properties                                                              *)

\* Types; whatever the application lets go of, and while the answer is still on
\* its way, a channel that the poller may call has its object, and its
\* descriptor (TcpClient.cpp:69); the connector is called at most once; and start(),
\* which writes the poller's tables, is run by the thread of the client's own loop
\* (EventLoopGroup.cpp:118, "BUG: memory errors are possible when the client is not
\* on the current thread").
ClientInv ==
    /\ TypeOK /\ Client!TypeOK
    /\ Client!BoundExists /\ Client!FdOutlivesChannel /\ Client!ConnectorOnce
    /\ Client!StartsOnItsLoop

\* A client that is started tells its connector how it ended and lets itself go,
\* unless the group ends first.
ClientEnds ==
    (clientPc = "connecting" /\ connector) ~>
        (~alive \/ (calls # <<>> /\ clientRefs \subseteq {"app"}))
=============================================================================
