------------------------------ MODULE MCGbaRun ------------------------------
(* A sound channel and the video channel; a transfer may start or stop the   *)
(* other or itself, acknowledge or mask interrupts, and halt the CPU.        *)
EXTENDS GbaRun

Control(chan, length, enable, timing, repeat, irq) ==
    [to |-> "control", chan |-> chan, length |-> length,
     control |-> [enable |-> enable, timing |-> timing, repeat |-> repeat, irq |-> irq]]
Stop(chan) == Control(chan, Same, FALSE, 0, FALSE, FALSE)
StartSound == Control(1, Same, TRUE, 3, TRUE, FALSE)
Once(chan, length) == Control(chan, length, TRUE, 0, FALSE, chan = 3)
StartVideo == Control(3, Same, TRUE, 3, TRUE, FALSE)
Irqs(half, enabled, acked) ==
    [to |-> "interrupts", half |-> half, enabled |-> enabled, acked |-> acked]

MCChannels == {1, 3}
MCWanted == {HblankBit, DmaBit(3), KeypadBit}
MCStores ==
    {Memory, HALTCNT, Stop(1), StartSound, Stop(3), Once(3, Same), StartVideo}
    \cup {[to |-> "length", chan |-> 3, length |-> 1]}
    \cup {Irqs(Bits, S, {}) : S \in {{HblankBit, DmaBit(3)}, {KeypadBit}}}
    \cup {Irqs({}, {}, {b}) : b \in MCWanted}
    \cup {[to |-> "IME", value |-> b] : b \in BOOLEAN}
MCWords == {Memory, HALTCNT, Stop(3), Once(1, Same), Once(3, 1),
            Irqs(LowBits, {}, {HblankBit})}
=============================================================================
