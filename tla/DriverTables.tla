------------------------------ MODULE DriverTables ------------------------------
(***************************************************************************)
(* The init, probe, exit and remove functions of the drivers that have no  *)
(* state of their own beyond their resources, as scripts for Bringup: one  *)
(* statement for every call that takes or releases something and for every *)
(* access through what was taken.  A label is the position in the undo     *)
(* script of the first statement behind it.                                *)
(***************************************************************************)
EXTENDS Bringup

CONSTANT Disks      \* CONFIG_BLK_DEV_RAM_COUNT

\* What calls come through, and what they follow pointers to.
Entry(through, needs) == [through |-> through, needs |-> needs, file |-> TRUE]
Interrupt(through, needs) == [through |-> through, needs |-> needs, file |-> FALSE]

-----------------------------------------------------------------------------
(* first_drv and second_drv: registered before the registers are mapped.    *)

FirstInit == <<Want("major"), Want("class"), Want("gpf")>>
FirstExit == <<Free("major"), Put("class"), Free("gpf")>>
FirstOps == {Entry({"major"}, {"gpf"})}

SecondInit == <<Want("major"), Want("class"), Want("gpf"), Want("gpg")>>
SecondExit == <<Free("major"), Put("class"), Free("gpf"), Free("gpg")>>
SecondOps == {Entry({"major"}, {"gpf", "gpg"})}

-----------------------------------------------------------------------------
(* led_drv on the platform bus.                                             *)

LedProbe == <<Want("gpio"), Want("major"), Want("class")>>
LedRemove == <<Put("class"), Free("major"), Free("gpio")>>
LedOps == {Entry({"major"}, {"gpio"})}

-----------------------------------------------------------------------------
(* lcd and lcd_4.3: no result is looked at; lcd forgets the frame buffer's  *)
(* memory.                                                                  *)

Gpio == {"gpb", "gpc", "gpd", "gpg"}
LcdInit ==
    <<Want("fb"), Touch({"fb"}),
      Want("gpb"), Want("gpc"), Want("gpd"), Want("gpg"), Touch(Gpio),
      Want("regs"), Touch({"regs"}),
      Want("dma"), Touch({"fb", "regs", "gpb"}),
      Want("node")>>
UnmapAll == <<Free("regs"), Free("gpb"), Free("gpc"), Free("gpd"), Free("gpg")>>
LcdExit == <<Free("node"), Touch({"gpb", "regs"})>> \o UnmapAll \o <<Free("fb")>>
Lcd43Init == LcdInit
Lcd43Exit ==
    <<Free("node"), Touch({"gpb", "regs"}), Free("dma")>> \o UnmapAll \o <<Free("fb")>>
LcdOps == {Entry({"node"}, {"fb", "dma"})}

-----------------------------------------------------------------------------
(* s3c_nand: out4, out3, out2 and out1 are 1 to 4.                          *)

NandInit ==
    <<Get("mtd", 4), Get("regs", 3), Touch({"mtd", "regs"}),
      Get("clk", 2), Touch({"regs"}),
      Get("chip", 1), Want("node")>>
NandUndo == <<Put("clk"), Put("regs"), Put("mtd")>>
NandExit == <<Free("node"), Put("clk"), Put("regs"), Put("mtd")>>
NandOps == {Entry({"node"}, {"mtd", "regs"})}

-----------------------------------------------------------------------------
(* s3c_nor: out3, out2 and out1 are 1, 3 and 4.                             *)

\* cfi_probe, then jedec_probe.
NorInit ==
    <<Get("map", 4), Touch({"map"}), Get("virt", 3), Touch({"map"}),
      Get("mtd", 1), Touch({"mtd"}), Want("node")>>
NorUndo == <<Put("mtd"), Put("virt"), Put("map")>>
NorExit == <<Free("node"), Put("mtd"), Put("virt"), Put("map")>>
NorOps == {Entry({"node"}, {"map", "virt", "mtd"})}

-----------------------------------------------------------------------------
(* ramblock, whose requests need its memory.                                *)

RamblockInit ==
    <<Want("disk"), Want("queue"), Touch({"disk"}), Want("major"), Touch({"disk"}),
      Want("buf"), Add("node")>>
RamblockExit == <<Free("major"), Put("node"), Put("disk"), Put("queue"), Free("buf")>>
RamblockOps == {Entry({"node", "queue"}, {"buf"})}

-----------------------------------------------------------------------------
(* ramdisk: the disks are numbered from 0; out releases those below i.      *)

Unit == 0 .. (Disks - 1)
Out(i) == 2 * (Disks - i) + 1
\* Two statements for each unit.
Paired(statement) ==
    [n \in 1 .. (2 * Disks) |-> statement[(n - 1) \div 2][((n - 1) % 2) + 1]]
RdAlloc ==
    [i \in Unit |-> <<Get(<<"disk", i>>, Out(i)),
                      GetOr(<<"queue", i>>, {<<"disk", i>>}, Out(i))>>]
RdInit ==
    Paired(RdAlloc) \o <<Get(<<"major", 0>>, Out(Disks))>>
        \o [n \in 1 .. Disks |-> Add(<<"node", n - 1>>)]
RdUndo ==
    LET last(i) == Disks - 1 - i
    IN  Paired([i \in Unit |-> <<Put(<<"disk", last(i)>>), Put(<<"queue", last(i)>>)>>])
RdCleanup ==
    [n \in 1 .. (3 * Disks) |->
        Put(<<<<"node", "disk", "queue">>[((n - 1) % 3) + 1], (n - 1) \div 3>>)]
        \o <<Put(<<"major", 0>>)>>
RdOps == {Entry({<<"node", i>>}, {<<"disk", i>>, <<"queue", i>>}) : i \in Unit}

-----------------------------------------------------------------------------
(* s3c2410fb: free_video_memory, release_clock, release_irq, release_mem    *)
(* and dealloc_fb are 1 to 5, the plain returns 6.                          *)

\* The file names s3c2410fb_remove and does not have it: the driver stays.
FbProbe ==
    <<Check(6), Get("fb", 6), Get("mem", 5), Get("irq", 4), Get("clk", 3),
      Get("video", 2), Get("node", 1), Want("debug")>>
FbUndo == <<Put("video"), Put("clk"), Put("irq"), Put("mem"), Put("fb")>>
FbOps == {Entry({"node"}, {"fb", "video"}), Interrupt({"irq"}, {"fb"})}

-----------------------------------------------------------------------------
(* usb_mousekb, for one mouse: UsbMouseKb has several.  Unregistering the   *)
(* input device gives back the only reference to it, and input_free_device  *)
(* gives back another.                                                      *)

MouseProbe ==
    <<Want("input"), Touch({"input"}), Want("registered"),
      Want("buf"), Want("urb"), Touch({"urb"}), Want("submitted")>>
MouseDisconnect ==
    <<Free("submitted"), Free("urb"), Free("buf"), PutAll({"registered", "input"}),
      Put("input")>>
MouseOps == {Interrupt({"submitted"}, {"urb", "buf", "input"})}

-----------------------------------------------------------------------------
(* The templates: xxx_init of ex_blockdev, whose out_queue and out are 1    *)
(* and 2, init_xxx_map of ex_mtd, whose err1 and err2 are 1 and 3, and its  *)
(* board_init, whose out_ior, out_mtd and out are 1 to 3.                   *)

BlockdevInit ==
    <<Get("disk", 2), Get("major", 2), Get("queue", 1), Touch({"disk", "queue"}),
      Add("node")>>
BlockdevUndo == <<Put("major"), Free("disk"), Put("queue")>>
BlockdevExit == <<Put("node"), Put("disk"), Put("queue"), Put("major")>>
BlockdevOps == {Entry({"node"}, {"disk", "queue"})}

MapInit == <<Get("virt", 3), Get("mtd", 1), Touch({"mtd"}), Want("node")>>
MapUndo == <<Put("mtd"), Put("virt")>>
MapExit == <<Free("node"), Put("mtd"), Put("virt")>>
MapOps == {Entry({"node"}, {"mtd", "virt"})}

\* nand_release takes the partitions away and frees what nand_scan allocated.
BoardInit ==
    <<Get("mtd", 3), Touch({"mtd"}), Get("regs", 2), Touch({"mtd"}),
      Get("chip", 1), Want("node")>>
BoardUndo == <<Put("regs"), Put("mtd")>>
BoardExit == <<Free("node"), Put("chip"), Put("regs"), Put("mtd")>>
BoardOps == {Entry({"node"}, {"mtd", "regs", "chip"})}

-----------------------------------------------------------------------------

\* A driver without error paths, and what only some drivers have.
Plain(init, exit, serves) ==
    [init |-> init, undo |-> <<>>, exit |-> exit, serves |-> serves,
     forgets |-> {}, early |-> FALSE, blind |-> {}, twice |-> {},
     bus |-> FALSE, unloads |-> TRUE]
Checked(init, undo, exit, serves) == [Plain(init, exit, serves) EXCEPT !.undo = undo]

AllDrivers ==
    [first |-> [Plain(FirstInit, FirstExit, FirstOps) EXCEPT !.early = TRUE],
     second |-> [Plain(SecondInit, SecondExit, SecondOps) EXCEPT !.early = TRUE],
     led |-> [Plain(LedProbe, LedRemove, LedOps) EXCEPT !.bus = TRUE],
     lcd |-> [Plain(LcdInit, LcdExit, LcdOps) EXCEPT !.forgets = {"dma"}],
     lcd43 |-> Plain(Lcd43Init, Lcd43Exit, LcdOps),
     nand |-> [Checked(NandInit, NandUndo, NandExit, NandOps) EXCEPT !.forgets = {"chip"}],
     nor |-> [Checked(NorInit, NorUndo, NorExit, NorOps) EXCEPT !.blind = {"mtd"}],
     ramblock |-> Plain(RamblockInit, RamblockExit, RamblockOps),
     rd |-> Checked(RdInit, RdUndo, RdCleanup, RdOps),
     blockdev |-> [Checked(BlockdevInit, BlockdevUndo, BlockdevExit, BlockdevOps)
                       EXCEPT !.blind = {"queue"}],
     mtdmap |-> [Checked(MapInit, MapUndo, MapExit, MapOps) EXCEPT !.blind = {"mtd"}],
     board |-> Checked(BoardInit, BoardUndo, BoardExit, BoardOps),
     mousekb |-> [Plain(MouseProbe, MouseDisconnect, MouseOps)
                       EXCEPT !.bus = TRUE, !.twice = {"input"}],
     s3c2410fb |-> [Checked(FbProbe, FbUndo, <<>>, FbOps) EXCEPT !.unloads = FALSE]]

=============================================================================
