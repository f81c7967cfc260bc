------------------------------ MODULE Settings ------------------------------
(***************************************************************************)
(* The flight controller's settings: conf (PID gains, switches, trims) and *)
(* global_conf (the sensors' zeroes), each kept in RAM and, with a         *)
(* checksum, in the EEPROM.  The sticks' trims, the ends of calibrations   *)
(* and the ground station's messages change them and write them, a byte at *)
(* a time, 3 ms each; power may fail between any two bytes, and setup()    *)
(* then goes by what the checksum lets pass.                               *)
(*                                                                         *)
(* A block is a function from its cells, a byte each; of the structures'   *)
(* bytes a few stand for all.  The library writes the bytes of a block in  *)
(* order, from the first or from the last; a byte is whole or not written. *)
(* One profile and no flash checksum, as config.h has it.                  *)
(***************************************************************************)
EXTENDS Integers, FiniteSets, SequencesExt

CONSTANTS
    Trims,         \* bound: the values angleTrim[PITCH] may take
    Others,        \* what MSP may set the other bytes of conf to: functions
    Defaults,      \* what LoadDefaults sets them to
    Zeroes,        \* what a calibration may measure
    MaxFailures    \* bound: failures of power

OtherCells == {"box", "gain", "expo"}
\* The order of the bytes in the two structures.
Layout == [conf   |-> <<"gain", "expo", "trimLow", "trimHigh", "box", "sum">>,
           global |-> <<"accLow", "accHigh", "sum">>]
Blocks == DOMAIN Layout
Cells == [b \in Blocks |-> ToSet(Layout[b])]
Byte == 0 .. 255
Int16 == -32768 .. 32767

ASSUME TrimsAssumption == Trims \subseteq Int16 /\ 0 \in Trims
ASSUME OthersAssumption == {Defaults} \cup Others \subseteq [OtherCells -> Byte]
ASSUME ZeroesAssumption == Zeroes \subseteq Int16
ASSUME FailuresAssumption == MaxFailures \in Nat

VARIABLES
    ram, eeprom,             \* conf and global_conf, there and there
    task,                    \* "off", "loop", or "write"
    block, todo,             \* what is being written, and the cells still to write
    ARMED,
    calibratingA, CALIBRATE_MAG,
    failures,                \* of power, so far
    \* history
    unsaved,                 \* the blocks changed in RAM since they were read or written
    before                   \* the conf in the EEPROM when the write of it began

status == <<ARMED, calibratingA, CALIBRATE_MAG, failures>>
vars == <<ram, eeprom, task, block, todo, status, unsaved, before>>

-----------------------------------------------------------------------------
Low(n) == n % 256
High(n) == (n \div 256) % 256
Word(low, high) == IF high < 128 THEN low + 256 * high ELSE low + 256 * high - 65536

Trim(conf) == Word(conf["trimLow"], conf["trimHigh"])
WithTrim(conf, trim) == [conf EXCEPT !["trimLow"] = Low(trim), !["trimHigh"] = High(trim)]
WithOther(conf, other) ==
    [c \in DOMAIN conf |-> IF c \in OtherCells THEN other[c] ELSE conf[c]]
WithAcc(global, zero) == [global EXCEPT !["accLow"] = Low(zero), !["accHigh"] = High(zero)]

Confs == [Cells["conf"] -> Byte]
Globals == [Cells["global"] -> Byte]

\* The sum of the bytes but the last, which is the checksum.
Bytes(data) ==
    IF data \in Confs
      THEN data["gain"] + data["expo"] + data["trimLow"] + data["trimHigh"] + data["box"]
      ELSE data["accLow"] + data["accHigh"]

\* Mutation: one byte too few is added.
calculate_sum_Short(data) == (85 + Bytes(data) - (IF data \in Confs THEN data["expo"] ELSE 0)) % 256

\* Mutation: the checksum itself is added.
calculate_sum_Whole(data) == (85 + Bytes(data) + data["sum"]) % 256

calculate_sum(data) == (85 + Bytes(data)) % 256

Passes(data) == calculate_sum(data) = data["sum"]

Sealed(data) == [data EXCEPT !["sum"] = calculate_sum(data)]

-----------------------------------------------------------------------------
TypeOK ==
    /\ DOMAIN ram = Blocks /\ DOMAIN eeprom = Blocks
    /\ {ram["conf"], eeprom["conf"], before} \subseteq Confs
    /\ {ram["global"], eeprom["global"]} \subseteq Globals
    /\ task \in {"off", "loop", "write"}
    /\ block \in Blocks /\ todo \in Seq(Cells[block]) /\ Len(todo) <= Len(Layout[block])
    /\ (task = "write") = (todo # <<>>)
    /\ {ARMED, calibratingA, CALIBRATE_MAG} \subseteq BOOLEAN
    /\ failures \in 0 .. MaxFailures
    /\ unsaved \subseteq Blocks

NoWrite == [c \in Cells["conf"] |-> 0]

Blank(byte) == [b \in Blocks |-> [c \in Cells[b] |-> byte]]

\* Power is off; the EEPROM is new or has been written before.
Init ==
    /\ ram = Blank(0)
    /\ \/ eeprom = Blank(255)
       \/ eeprom = [conf |-> Sealed(WithOther(Blank(0)["conf"], Defaults)),
                    global |-> Sealed(Blank(0)["global"])]
    /\ task = "off" /\ block = "conf" /\ todo = <<>>
    /\ ARMED = FALSE /\ calibratingA = FALSE /\ CALIBRATE_MAG = FALSE
    /\ failures = 0
    /\ unsaved = {}
    /\ before = NoWrite

\* Mutation: the checksum of the last write goes with it.
Write_Unsealed(b, next) ==
    /\ ram' = next
    /\ task' = "write" /\ block' = b
    /\ todo' \in {Layout[b], Reverse(Layout[b])}
    /\ before' = IF b = "conf" THEN eeprom["conf"] ELSE NoWrite

\* The write of a block, whose checksum is computed in RAM, begins.
Write(b, next) ==
    /\ ram' = [next EXCEPT ![b] = Sealed(@)]
    /\ task' = "write" /\ block' = b
    /\ todo' \in {Layout[b], Reverse(Layout[b])}
    /\ before' = IF b = "conf" THEN eeprom["conf"] ELSE NoWrite

WithDefaults(conf) == WithOther(WithTrim(conf, 0), Defaults)

\* setup(), as far as settings go: readGlobalSet, which marks a zero as unknown if the
\* block does not pass and uses the rest, and readEEPROM, which loads the defaults.
Boot ==
    /\ task = "off"
    /\ LET global == IF Passes(eeprom["global"]) THEN eeprom["global"]
                                                 ELSE WithAcc(eeprom["global"], 5000)
           read == [eeprom EXCEPT !["global"] = global]
       IN  IF Passes(eeprom["conf"])
             THEN ram' = read /\ task' = "loop" /\ UNCHANGED <<block, todo, before>>
             ELSE Write("conf", [read EXCEPT !["conf"] = WithDefaults(@)])
    /\ unsaved' = IF Passes(eeprom["global"]) THEN {} ELSE {"global"}
    /\ UNCHANGED <<eeprom, status>>

\* The last byte of conf is followed by readEEPROM: what does not pass is overwritten
\* with the defaults, which are written and read in their turn.
WriteCell ==
    /\ task = "write"
    /\ eeprom' = [eeprom EXCEPT ![block][Head(todo)] = ram[block][Head(todo)]]
    /\ IF Tail(todo) # <<>>
         THEN todo' = Tail(todo) /\ UNCHANGED <<task, ram, block, before>>
       ELSE IF block = "conf" /\ ~Passes(eeprom'["conf"])
         THEN /\ ram' = [ram EXCEPT !["conf"] = Sealed(WithDefaults(@))]
              /\ todo' \in {Layout["conf"], Reverse(Layout["conf"])}
              /\ before' = eeprom'["conf"]
              /\ UNCHANGED <<task, block>>
       ELSE task' = "loop" /\ todo' = <<>> /\ before' = NoWrite /\ UNCHANGED <<ram, block>>
    /\ UNCHANGED <<status, unsaved>>

PowerFails ==
    /\ task # "off" /\ failures < MaxFailures
    /\ failures' = failures + 1
    /\ task' = "off"
    /\ ram' = Blank(0) /\ block' = "conf" /\ todo' = <<>>
    /\ ARMED' = FALSE /\ calibratingA' = FALSE /\ CALIBRATE_MAG' = FALSE
    /\ unsaved' = {} /\ before' = NoWrite
    /\ UNCHANGED eeprom

-----------------------------------------------------------------------------
(* The loop; nothing of it happens while a block is written.               *)

writeParams(conf) ==
    /\ task = "loop"
    /\ Write("conf", [ram EXCEPT !["conf"] = conf])
    /\ unsaved' = unsaved \ {"conf"}
    /\ UNCHANGED <<eeprom, status>>

\* A stick held in a trim's position.
TrimStick(step) ==
    /\ ~ARMED
    /\ Trim(ram["conf"]) + step \in Trims
    /\ writeParams(WithTrim(ram["conf"], Trim(ram["conf"]) + step))

\* MSP_SET_PID, MSP_SET_BOX and their like, MSP_SET_ACC_TRIM: in RAM only.
Set(conf) ==
    /\ task = "loop"
    /\ ram' = [ram EXCEPT !["conf"] = conf]
    /\ unsaved' = unsaved \cup {"conf"}
    /\ UNCHANGED <<eeprom, task, block, todo, status, before>>

SetByMSP ==
    \/ \E other \in Others : Set(WithOther(ram["conf"], other))
    \/ \E trim \in Trims : Set(WithTrim(ram["conf"], trim))

\* MSP_EEPROM_WRITE, armed or not.
MSP_EEPROM_WRITE == writeParams(ram["conf"])

MSP_RESET_CONF == ~ARMED /\ writeParams(WithDefaults(ram["conf"]))

\* By the sticks or by MSP.
BeginCalibration ==
    /\ task = "loop" /\ ~ARMED
    /\ \/ calibratingA' = TRUE /\ UNCHANGED CALIBRATE_MAG
       \/ CALIBRATE_MAG' = TRUE /\ UNCHANGED calibratingA
    /\ UNCHANGED <<ram, eeprom, task, block, todo, ARMED, failures, unsaved, before>>

\* A reading: accZero is the sum so far over all 512, and so wrong until the last.
\* (The compass has zeroes of its own, which are left out.)
ReadAcc(zero) ==
    /\ task = "loop" /\ calibratingA
    /\ ram' = [ram EXCEPT !["global"] = WithAcc(@, zero)]
    /\ unsaved' = unsaved \cup {"global"}
    /\ UNCHANGED <<eeprom, task, block, todo, status, before>>

\* ACC_Common at its last reading: the trims are reset in RAM, and global_conf is written.
EndAcc(zero) ==
    /\ task = "loop" /\ calibratingA
    /\ calibratingA' = FALSE
    /\ Write("global", [conf |-> WithTrim(ram["conf"], 0),
                        global |-> WithAcc(ram["global"], zero)])
    /\ unsaved' = (unsaved \ {"global"}) \cup
                      (IF Trim(ram["conf"]) = 0 THEN {} ELSE {"conf"})
    /\ UNCHANGED <<eeprom, ARMED, CALIBRATE_MAG, failures>>

\* Mag_getADC after 30 seconds.
EndMag ==
    /\ task = "loop" /\ CALIBRATE_MAG
    /\ CALIBRATE_MAG' = FALSE
    /\ Write("global", ram)
    /\ unsaved' = unsaved \ {"global"}
    /\ UNCHANGED <<eeprom, ARMED, calibratingA, failures>>

\* The box must be set for the craft to be armed; neither calibration keeps it from that.
Arm ==
    /\ task = "loop"
    /\ ARMED' = (~ARMED /\ ram["conf"]["box"] # 0)
    /\ ARMED' # ARMED
    /\ UNCHANGED <<ram, eeprom, task, block, todo, calibratingA, CALIBRATE_MAG, failures, unsaved,
                   before>>

Loop ==
    \/ \E step \in {-2, 2} : TrimStick(step)
    \/ SetByMSP \/ MSP_EEPROM_WRITE \/ MSP_RESET_CONF
    \/ BeginCalibration \/ EndMag
    \/ \E zero \in Zeroes : ReadAcc(zero) \/ EndAcc(zero)
    \/ Arm

Next == Boot \/ PowerFails \/ WriteCell \/ Loop

Spec == Init /\ [][Next]_vars

\* The controller runs when it has power.
FairSpec == Spec /\ WF_vars(Boot) /\ WF_vars(WriteCell)

-----------------------------------------------------------------------------
\* The bytes of conf that the last write of it has to change, or had.
Changed == {c \in Cells["conf"] \ {"sum"} : ram["conf"][c] # before[c]}

\* "EEPROM settings secured by checksum" (change.txt:583), which is a sum of bytes and
\* does not tell their order or values: it secures a change of two bytes, as a trim makes.
\* Wherever in a write of conf power fails, what passes is the settings before or after,
\* and never some of each.  (Three bytes set by MSP and written at once may mix.)
TornIsCaught ==
    task = "write" /\ block = "conf" /\ Passes(before) /\ Cardinality(Changed) <= 2
      => (Passes(eeprom["conf"]) => eeprom["conf"] \in {before, ram["conf"]})

\* What flies is what the next start will read, for each block that has not been changed
\* since by MSP or by a calibration under way, or whose zero was marked: through torn
\* writes, defaults and calibrations that overlap.
FliesWhatIsSaved ==
    task = "loop" => \A b \in Blocks \ unsaved : Passes(eeprom[b]) /\ eeprom[b] = ram[b]

\* However often power has failed in a write, of the defaults as well, a start comes to
\* its end once power stays.
BootCompletes == <>[](task # "off") => []<>(task = "loop")
=============================================================================
