--------------------------------- MODULE S3cFb ---------------------------------
(***************************************************************************)
(* The palette of src/ex_source/s3c2410fb_ym.c: a program leaves a colour  *)
(* in palette_buffer, the frame interrupt copies what has changed to the   *)
(* hardware and tries again what the hardware did not take.  The interrupt *)
(* is live from request_irq on, in the middle of the probe, and until      *)
(* free_irq on its error paths: the module composes the palette with       *)
(* Bringup, which runs the probe.                                          *)
(***************************************************************************)
EXTENDS Bringup

CONSTANTS
    Entries,    \* the palette entries
    Colors,     \* the values an entry can be set to
    CLEAR       \* PALETTE_BUFF_CLEAR: nothing to write

\* Colours have 16 bits, PALETTE_BUFF_CLEAR has bit 31 set.
ASSUME ClearAssumption == CLEAR \notin Colors

VARIABLES
    palette_buffer, \* palette_buffer[e]: what is to be written to entry e
    palette_ready,  \* 1 when the interrupt has to write the palette
    hw,             \* hw[e]: entry e of the hardware's palette
    \* History: the colour last asked for.
    wanted

palette == <<palette_buffer, palette_ready, hw, wanted>>
vars == <<bringup, palette>>

TypeOK ==
    /\ BringupTypeOK
    /\ palette_buffer \in [Entries -> Colors \union {CLEAR}]
    /\ palette_ready \in {0, 1}
    /\ hw \in [Entries -> Colors]
    /\ wanted \in [Entries -> Colors]

Init ==
    /\ BringupInit
    /\ palette_buffer = [e \in Entries |-> CLEAR]
    /\ palette_ready = 0
    /\ hw \in [Entries -> Colors]
    /\ wanted = hw

\* This driver has r.
Has(r) == drv = "s3c2410fb" /\ r \in held

-----------------------------------------------------------------------------
(* The palette.                                                             *)

\* A program sets a colour: the driver's set-colour operation leaves the value
\* in palette_buffer for the interrupt.
SetColor(e, c) ==
    /\ Has("node")
    /\ palette_buffer' = [palette_buffer EXCEPT ![e] = c]
    /\ palette_ready' = 1
    /\ wanted' = [wanted EXCEPT ![e] = c]
    /\ UNCHANGED <<bringup, hw>>

\* Mutants: palette_ready = 0 comes last; it counts.
ReadyAfterNever(left) == 0
ReadyAfterCount(left) == IF left = {} THEN 0 ELSE palette_ready + 1
\* 1 when an entry could not be written.
ReadyAfter(left) == IF left = {} THEN 0 ELSE 1

\* s3c2410fb_write_palette: the entries in busy do not read back as written,
\* because the controller is using the palette; they are kept.
WritePalette(busy) ==
    LET todo == {e \in Entries : palette_buffer[e] # CLEAR}
    IN  /\ busy \subseteq todo
        /\ hw' = [e \in Entries |->
                    IF e \in todo \ busy THEN palette_buffer[e] ELSE hw[e]]
        /\ palette_buffer' = [e \in Entries |->
                    IF e \in busy THEN palette_buffer[e] ELSE CLEAR]
        /\ palette_ready' = ReadyAfter(busy)

\* s3c2410fb_irq for the frame interrupt.
FrameIrq ==
    /\ Has("irq")
    /\ palette_ready = 1
    /\ \E busy \in SUBSET Entries : WritePalette(busy)
    /\ UNCHANGED <<bringup, wanted>>
FrameIrqIdle == Has("irq") /\ palette_ready = 0 /\ UNCHANGED vars

-----------------------------------------------------------------------------

\* framebuffer_alloc, and the palette buffer as the probe initialises it.
AllocFb ==
    /\ Acquire
    /\ ~Has("fb") /\ Has("fb")'
    /\ palette_buffer' = [e \in Entries |-> CLEAR]
    /\ palette_ready' = 0
    /\ wanted' = hw
    /\ hw' = hw

\* All other steps of the drivers leave the palette alone.
OtherStep ==
    /\ BringupNext
    /\ Has("fb")' => Has("fb")
    /\ UNCHANGED palette

Next ==
    \/ AllocFb \/ OtherStep
    \/ \E e \in Entries, c \in Colors : SetColor(e, c)
    \/ FrameIrq \/ FrameIrqIdle

Spec == Init /\ [][Next]_vars

-----------------------------------------------------------------------------

\* No colour is forgotten: an entry that waits to be written keeps
\* palette_ready set, and one that does not wait shows the last colour set.
NoColorForgotten ==
    Has("fb") =>
        \A e \in Entries :
            IF palette_buffer[e] = CLEAR
            THEN hw[e] = wanted[e]
            ELSE palette_ready = 1 /\ palette_buffer[e] = wanted[e]

=============================================================================
