------------------------------- MODULE HalGpio -------------------------------
(***************************************************************************)
(* The GPIO half of libgw_hal (hal/src/platform_pi4.c) at the granularity  *)
(* of one library call.  Every entry point except assert_safe_state does   *)
(* its work under the mutex g_mu, so a call is one step here.              *)
(*                                                                         *)
(* g_lines[] is kept as the mode of each pin: "free" when no slot holds    *)
(* the pin, "output" or "input" when one does.  The level of a pin is a    *)
(* fact of the board: it outlives the release of the line.                 *)
(*                                                                         *)
(* An operator named after a C function is the action of one call that     *)
(* returns rc.  The kernel may refuse any request or write, which is       *)
(* GW_ERR_IO; such a refusal changes nothing.                              *)
(***************************************************************************)
EXTENDS Naturals, FiniteSets

CONSTANTS Pins,            \* the BCM pins the configuration can name
          MAX_GPIO_LINES   \* slots of g_lines

ASSUME HalAssumption == MAX_GPIO_LINES \in Nat /\ IsFiniteSet(Pins)

VARIABLES g_gpio_initialized,  \* BOOLEAN: gw_gpio_init succeeded, no cleanup since
          mode,                \* [Pins -> Modes]: the content of g_lines
          level                \* [Pins -> {0, 1}]: what the board drives

halVars == <<g_gpio_initialized, mode, level>>

Modes == {"free", "output", "input"}

HalTypeOK ==
    /\ g_gpio_initialized \in BOOLEAN
    /\ mode \in [Pins -> Modes]
    /\ level \in [Pins -> {0, 1}]

\* The process starts with an empty table; relays rest low.
HalInit ==
    /\ g_gpio_initialized = FALSE
    /\ mode = [p \in Pins |-> "free"]
    /\ level = [p \in Pins |-> 0]

UsedSlots == {p \in Pins : mode[p] # "free"}

\* A slot for p: alloc_slot finds one and find_slot found none.
Allocatable(p) ==
    /\ mode[p] = "free"
    /\ Cardinality(UsedSlots) < MAX_GPIO_LINES

\* Mutant of Outputs: the loop over g_lines starts at the second slot.
OutputsButFirst ==
    {p \in Pins : mode[p] = "output" /\ \E q \in UsedSlots : q < p}

Outputs == {p \in Pins : mode[p] = "output"}

gw_gpio_init(rc) ==
    \/ /\ rc = "OK"
       /\ g_gpio_initialized' = TRUE
       /\ mode' = IF g_gpio_initialized THEN mode ELSE [p \in Pins |-> "free"]
       /\ UNCHANGED level
    \/ /\ rc = "PERM"                          \* gpiod_chip_open failed
       /\ ~g_gpio_initialized
       /\ UNCHANGED halVars

\* A pin beyond those of the chip is INVALID; one that has a slot, or a full table, is
\* BUSY.
RequestError(p, rc) ==
    /\ \/ rc = "NOT_INIT" /\ ~g_gpio_initialized
       \/ rc = "INVALID"  /\ g_gpio_initialized
       \/ rc = "BUSY"     /\ g_gpio_initialized /\ ~Allocatable(p)
       \/ rc = "IO"       /\ g_gpio_initialized /\ Allocatable(p)
    /\ UNCHANGED halVars

gw_gpio_request_output(p, initial_value, rc) ==
    \/ /\ rc = "OK"
       /\ g_gpio_initialized
       /\ Allocatable(p)
       /\ mode' = [mode EXCEPT ![p] = "output"]
       /\ level' = [level EXCEPT ![p] = initial_value]
       /\ UNCHANGED g_gpio_initialized
    \/ RequestError(p, rc)

gw_gpio_set(p, value, rc) ==
    \/ /\ rc = "OK"
       /\ g_gpio_initialized
       /\ mode[p] = "output"
       /\ level' = [level EXCEPT ![p] = value]
       /\ UNCHANGED <<g_gpio_initialized, mode>>
    \/ /\ \/ rc = "NOT_INIT" /\ ~g_gpio_initialized
          \/ rc = "INVALID"  /\ g_gpio_initialized /\ mode[p] # "output"
          \/ rc = "IO"       /\ g_gpio_initialized /\ mode[p] = "output"
       /\ UNCHANGED halVars

\* Drives every output low, ignoring the writes that the kernel refuses
\* (failed).  Lines that have been released are not touched.
gw_gpio_assert_safe_state(failed) ==
    /\ failed \subseteq Outputs
    /\ level' = [p \in Pins |->
                   IF p \in Outputs \ failed THEN 0 ELSE level[p]]
    /\ UNCHANGED <<g_gpio_initialized, mode>>

\* Releases every line and closes the chip; the levels stay.
gw_gpio_cleanup ==
    /\ mode' = [p \in Pins |-> "free"]
    /\ g_gpio_initialized' = FALSE
    /\ UNCHANGED level
===============================================================================
