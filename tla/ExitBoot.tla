------------------------------ MODULE ExitBoot ------------------------------
(***************************************************************************)
(* linux_exit_boot_services (linux/aarch64.c): the loader asks the firmware *)
(* for its memory map and gives the key of that map to ExitBootServices,    *)
(* which refuses a key that is no longer current.  Allocating the buffer    *)
(* for the map changes the map, and so may an event of the firmware at any  *)
(* moment.  Sizes are counted in descriptors.                               *)
(***************************************************************************)
EXTENDS Naturals

CONSTANTS
    Retries,    \* EXIT_BOOT_SERVICES_RETRIES
    Slack,      \* the descriptors added to the size the firmware asked for
    PoolGrowth, \* by how many descriptors an allocation splits the map
    MapSizes,   \* sizes the firmware's map can have
    MaxEvents   \* bound on the events of the firmware

ASSUME ExitAssumption ==
    /\ Retries \in Nat \ {0} /\ Slack \in Nat /\ PoolGrowth \in Nat
    /\ MapSizes \subseteq Nat /\ MaxEvents \in Nat
    /\ PoolGrowth <= Slack

\* One attempt for the size, one for the map, and both once more.
ASSUME RetriesAssumption == Retries >= 4

VARIABLE exit

\* Not running; then: at GetMemoryMap, at ExitBootServices, and the outcomes.
NotExiting == [at |-> "off", tries |-> 0, capacity |-> 0, size |-> 0,
               stale |-> FALSE, events |-> 0, refused |-> FALSE]

\* map_size = map_capacity = 0: the first call only tells the size.
StartExit ==
    \E n \in MapSizes : exit' = [NotExiting EXCEPT !.at = "get", !.size = n]

\* Mutant: one attempt less, as if the sizing call did not count.
OneRetryLess == exit.tries + 1 < Retries

\* attempt < EXIT_BOOT_SERVICES_RETRIES
MoreTries == exit.tries < Retries

\* GetMemoryMap: a buffer that is too small is replaced and the attempt is
\* spent.  Both the allocation and the call itself can fail.
GetMemoryMap ==
    /\ exit.at = "get" /\ MoreTries
    /\ LET e == [exit EXCEPT !.tries = @ + 1]
       IN  \/ /\ exit.size > exit.capacity
              /\ \E n \in MapSizes :
                   /\ exit.size <= n /\ n <= exit.size + PoolGrowth
                   /\ exit' = [e EXCEPT !.capacity = exit.size + Slack,
                                        !.size = n]
           \/ /\ exit.size <= exit.capacity
              /\ exit' = [e EXCEPT !.at = "call", !.stale = FALSE]
           \/ exit' = [e EXCEPT !.at = "failed", !.refused = TRUE]

\* ExitBootServices: EFI_INVALID_PARAMETER for an old key, or another error.
CallExit ==
    /\ exit.at = "call"
    /\ \/ ~exit.stale /\ exit' = [exit EXCEPT !.at = "done"]
       \/ exit.stale /\ exit' = [exit EXCEPT !.at = "get"]
       \/ exit' = [exit EXCEPT !.at = "failed", !.refused = TRUE]

\* The loop ends with the status of the last attempt.
OutOfTries ==
    /\ exit.at = "get" /\ ~MoreTries
    /\ exit' = [exit EXCEPT !.at = "failed"]

\* The firmware allocates or frees memory between two calls (a timer).
MemoryEvent ==
    /\ exit.at \in {"get", "call"} /\ exit.events < MaxEvents
    /\ \E n \in MapSizes :
         exit' = [exit EXCEPT !.size = n, !.stale = TRUE,
                              !.events = @ + 1]

ExitStep == GetMemoryMap \/ CallExit \/ OutOfTries \/ MemoryEvent

\* The attempts are enough for one change of the memory map at the worst
\* moment, whatever the change does to the size of the map: without an error
\* of the firmware it takes two to make the hand-off fail.
ExitSurvivesOneChange ==
    exit.at = "failed" => exit.refused \/ exit.events >= 2

=============================================================================
