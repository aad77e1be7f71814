---------------------------- MODULE SlabPrograms ----------------------------
(***************************************************************************)
(* The two programs that share the allocators and the ring: HttpGateway    *)
(* and LoadGenerator, one or the other from the start.                     *)
(***************************************************************************)
EXTENDS HttpGateway, LoadGenerator

VARIABLE program         \* "http" or "load"

programVars == <<vars, load, program>>

\* A step of one program leaves the state of the other alone.
Http(step) == program = "http" /\ step /\ UNCHANGED <<load, program>>
Load(step) == program = "load" /\ step /\ UNCHANGED <<network, lifecycle, program>>

ProgramInit ==
    \/ /\ program = "http" /\ Init
       /\ total_events_to_send = 0 /\ ammo = <<>> /\ fired = 0 /\ sent = 0 /\ is_sending = FALSE
    \/ program = "load" /\ LoadInit /\ NetworkInit

ProgramNext == Http(Next) \/ Load(LoadNext)

ProgramSpec == ProgramInit /\ [][ProgramNext]_programVars

\* The thread at each end of the ring runs; a swap that is possible again and again
\* succeeds.
ProducerRuns == Http(GatewayRuns) \/ Load(Generator)
ConsumerRuns == Http(Worker) \/ Load(Sender)
ProducerSwaps ==
    \/ Http(SwapSucceeds(Producer))
    \/ Load(pc[Producer] \in {"take", "give"} /\ Generator /\ head' # head)
ConsumerSwaps == Http(SwapSucceeds(Consumer))

----------------------------------------------------------------------------
\* No program loses a block or has it in two places, whichever the allocator.
BlocksConserved == IF program = "http" THEN RequestsConserveBlocks ELSE AmmoConserved

\* Clients are answered, and the load generator's events are sent.
WorkCompletes == ClientsAnswered /\ AllSent
=============================================================================
