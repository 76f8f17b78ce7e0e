------------------------------ MODULE EvmCalls ------------------------------
(***************************************************************************)
(* What a virtual machine promises about nested calls: every frame has a   *)
(* message of its own, the message of a callee derives from the message of *)
(* its caller, and a frame sees the data its own last call returned.       *)
(***************************************************************************)
EXTENDS Integers, Sequences

CONSTANTS
    Addr,           \* accounts
    Data,           \* return data that is not empty
    NoData,         \* the empty return data
    DepthLimit      \* frames at this depth make no calls

VARIABLES frames    \* the active frames, outermost first

Results == Data \cup {NoData}

(* A frame comes from an instruction that names an account.                *)
Frame(msg, kind, addr) ==
    [msg |-> msg, origin |-> [kind |-> kind, addr |-> addr], data |-> NoData]

Kinds == {"call", "callcode", "delegate", "static"}

(* The message of a callee.                                                *)
Derived(msg, kind, addr) ==
    [kind   |-> IF kind = "static" THEN "call" ELSE kind,
     depth  |-> msg.depth + 1,
     dest   |-> IF kind \in {"callcode", "delegate"} THEN msg.dest ELSE addr,
     sender |-> IF kind = "delegate" THEN msg.sender ELSE msg.dest,
     static |-> msg.static \/ kind = "static"]

Top == frames[Len(frames)]

Init == frames = <<>>

Begin ==
    /\ frames = <<>>
    /\ \E dest, sender \in Addr, static \in BOOLEAN :
         frames' = <<Frame([kind |-> "call", depth |-> 0, dest |-> dest,
                            sender |-> sender, static |-> static],
                           "top", dest)>>

(* A call starts by forgetting the data of the call before.                *)
Forgotten == [frames EXCEPT ![Len(frames)].data = NoData]

Call ==
    /\ frames # <<>>
    /\ Top.msg.depth < DepthLimit
    /\ \E kind \in Kinds, addr \in Addr :
         frames' = Append(Forgotten, Frame(Derived(Top.msg, kind, addr), kind, addr))

CallFails ==
    /\ frames # <<>>
    /\ frames' = Forgotten

Return ==
    /\ frames # <<>>
    /\ LET rest == SubSeq(frames, 1, Len(frames) - 1)
       IN  IF rest = <<>>
           THEN frames' = rest
           ELSE \E d \in Results :
                  frames' = [rest EXCEPT ![Len(rest)].data = d]

Next == Begin \/ Call \/ CallFails \/ Return

Spec == Init /\ [][Next]_frames
=============================================================================
