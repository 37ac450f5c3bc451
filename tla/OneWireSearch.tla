--------------------------- MODULE OneWireSearch ----------------------------
(***************************************************************************)
(* The search of libraries/OneWire-master that finds the addresses of the  *)
(* thermometers: DallasTemperature.begin enumerates them all, getAddress   *)
(* takes the first on every run of the detector.                           *)
(*                                                                         *)
(* Each call walks down the tree of addresses, one bit a step.  The        *)
(* devices still listening drive the wire together: a bit reads 1 when all *)
(* of them send 1.  A device may leave or join the bus between any two     *)
(* bits, and the bus may be shorted to ground, so that every bit reads 0.  *)
(* LastFamilyDiscrepancy is left out: nothing in the program reads it.     *)
(***************************************************************************)
EXTENDS Integers, FiniteSets

CONSTANTS
    Bits,          \* length of an address, 64 on the wire
    FamilyBits,    \* length of its first byte, 8
    Addresses,     \* the addresses that devices may have
    MaxDevices,    \* bound: devices on the bus at first
    MaxChanges     \* bound: devices that leave or join, and shorts

Rom == [1..Bits -> 0..1]

\* ROM_NO[0] != 0
HasFamily(rom) == \E n \in 1..FamilyBits : rom[n] = 1

ASSUME SearchAssumption ==
    /\ Bits \in Nat /\ FamilyBits \in 1..Bits
    /\ Addresses \subseteq Rom /\ \A d \in Addresses : HasFamily(d)
    /\ MaxDevices \in Nat /\ MaxChanges \in Nat

VARIABLES
    present,           \* devices on the bus
    shorted,           \* the bus is shorted to ground
    changes,           \* how often that changed
    ROM_NO,
    LastDiscrepancy,   \* position where the last search took a 0, 0 if none
    LastDeviceFlag,    \* the last search found the last device
    id_bit_number,     \* 0 between searches
    last_zero,
    listening,         \* devices that have matched every bit of this search
    result,            \* what the last search returned
    found,             \* history: addresses returned by this enumeration
    steady             \* history: the bus has not changed since its first search

busVars    == <<present, shorted, changes>>
searchVars == <<ROM_NO, LastDiscrepancy, LastDeviceFlag>>
oneWireVars == <<busVars, searchVars, id_bit_number, last_zero, listening, result,
          found, steady>>

SearchTypeOK ==
    /\ present \subseteq Addresses /\ listening \subseteq Addresses
    /\ shorted \in BOOLEAN /\ changes \in 0..MaxChanges
    /\ ROM_NO \in Rom
    /\ LastDiscrepancy \in 0..Bits /\ LastDeviceFlag \in BOOLEAN
    /\ id_bit_number \in 0..Bits /\ last_zero \in 0..Bits
    /\ result \in {"none", "found", "not found"}
    /\ found \subseteq Rom
    /\ steady \in BOOLEAN

Zeros == [n \in 1..Bits |-> 0]

SearchInit ==
    /\ present \in {D \in SUBSET Addresses : Cardinality(D) <= MaxDevices}
    /\ shorted = FALSE /\ changes = 0
    /\ ROM_NO = Zeros /\ LastDiscrepancy = 0 /\ LastDeviceFlag = FALSE
    /\ id_bit_number = 0 /\ last_zero = 0 /\ listening = {}
    /\ result = "none"
    /\ found = {} /\ steady = TRUE

-----------------------------------------------------------------------------
(* The bus *)

Leaves(d) ==
    /\ changes < MaxChanges /\ d \in present
    /\ present' = present \ {d} /\ listening' = listening \ {d}
    /\ changes' = changes + 1 /\ steady' = FALSE
    /\ UNCHANGED <<shorted, searchVars, id_bit_number, last_zero, result, found>>

\* A device that joins takes part from the next search on.
Joins(d) ==
    /\ changes < MaxChanges /\ d \notin present
    /\ present' = present \cup {d}
    /\ changes' = changes + 1 /\ steady' = FALSE
    /\ UNCHANGED <<shorted, searchVars, id_bit_number, last_zero, listening,
                   result, found>>

ShortCircuit ==
    /\ changes < MaxChanges /\ ~shorted
    /\ shorted' = TRUE
    /\ changes' = changes + 1 /\ steady' = FALSE
    /\ UNCHANGED <<present, searchVars, id_bit_number, last_zero, listening,
                   result, found>>

\* What read_bit returns while the listening devices send bit n of their
\* address, or its complement: the wire is high if none of them pulls it low.
IdBit(n)    == IF shorted \/ \E d \in listening : d[n] = 0 THEN 0 ELSE 1
CmpIdBit(n) == IF shorted \/ \E d \in listening : d[n] = 1 THEN 0 ELSE 1

\* reset(): a presence pulse, which a shorted wire cannot show.
Presence == present # {} /\ ~shorted

-----------------------------------------------------------------------------
(* Searching *)

reset_search ==
    /\ id_bit_number = 0
    /\ ROM_NO' = Zeros /\ LastDiscrepancy' = 0 /\ LastDeviceFlag' = FALSE
    /\ result' = "none"
    /\ UNCHANGED <<busVars, id_bit_number, last_zero, listening, found, steady>>

\* The counters are reset, so that the next search will be like a first.
NotFound ==
    /\ LastDiscrepancy' = 0 /\ LastDeviceFlag' = FALSE
    /\ result' = "not found"
    /\ UNCHANGED found

\* A search ends at once after the last device, or without a presence pulse.
SearchFails ==
    /\ id_bit_number = 0
    /\ LastDeviceFlag \/ ~Presence
    /\ NotFound
    /\ UNCHANGED <<busVars, ROM_NO, id_bit_number, last_zero, listening, steady>>

\* A search from position 0 is the first of an enumeration.
SearchBegins ==
    /\ id_bit_number = 0
    /\ ~LastDeviceFlag /\ Presence
    /\ id_bit_number' = 1 /\ last_zero' = 0
    /\ listening' = present
    /\ result' = "none"
    /\ IF LastDiscrepancy = 0 THEN found' = {} /\ steady' = TRUE
                              ELSE UNCHANGED <<found, steady>>
    /\ UNCHANGED <<busVars, searchVars>>

\* Mutant: two high bits are taken for a discrepancy.
MutAnswered(n) == TRUE

\* Both bits are high when nobody is listening any more.
Answered(n) == IdBit(n) = 0 \/ CmpIdBit(n) = 0

NobodyAnswers ==
    /\ id_bit_number # 0
    /\ ~Answered(id_bit_number)
    /\ NotFound
    /\ id_bit_number' = 0
    /\ UNCHANGED <<busVars, ROM_NO, last_zero, listening, steady>>

\* Mutant: at the last discrepancy the old direction is taken again.
MutDirection(n) ==
    IF IdBit(n) # CmpIdBit(n) THEN IdBit(n)
    ELSE IF n <= LastDiscrepancy THEN ROM_NO[n] ELSE 0

\* Where the devices disagree: the old direction before the last discrepancy,
\* 1 at it, 0 after it.
Direction(n) ==
    IF IdBit(n) # CmpIdBit(n) THEN IdBit(n)
    ELSE IF n < LastDiscrepancy THEN ROM_NO[n]
    ELSE IF n = LastDiscrepancy THEN 1 ELSE 0

\* Mutant: the first discrepancy is kept instead of the last one.
MutLastZero(n) ==
    IF IdBit(n) = CmpIdBit(n) /\ Direction(n) = 0 /\ last_zero = 0
    THEN n ELSE last_zero

\* Mutant: the position is advanced before it is recorded.
MutLastZeroAfter(n) ==
    IF IdBit(n) = CmpIdBit(n) /\ Direction(n) = 0 THEN n + 1 ELSE last_zero

LastZero(n) ==
    IF IdBit(n) = CmpIdBit(n) /\ Direction(n) = 0 THEN n ELSE last_zero

\* The address is complete; one whose first byte is 0 is no address.
Complete(rom, zero) ==
    IF HasFamily(rom)
    THEN /\ LastDiscrepancy' = zero /\ LastDeviceFlag' = (zero = 0)
         /\ result' = "found" /\ found' = found \cup {rom}
    ELSE NotFound

SearchBit ==
    LET n   == id_bit_number
        rom == [ROM_NO EXCEPT ![n] = Direction(n)]
    IN  /\ n # 0
        /\ Answered(n)
        /\ ROM_NO' = rom
        /\ listening' = {d \in listening : d[n] = rom[n]}
        /\ last_zero' = LastZero(n)
        /\ IF n = Bits
           THEN id_bit_number' = 0 /\ Complete(rom, LastZero(n))
           ELSE /\ id_bit_number' = n + 1
                /\ UNCHANGED <<LastDiscrepancy, LastDeviceFlag, result, found>>
        /\ UNCHANGED <<busVars, steady>>

SearchNext ==
    \/ \E d \in Addresses : Leaves(d) \/ Joins(d)
    \/ ShortCircuit
    \/ reset_search \/ SearchFails \/ SearchBegins
    \/ NobodyAnswers \/ SearchBit

SearchSpec == SearchInit /\ [][SearchNext]_oneWireVars

-----------------------------------------------------------------------------
(* Properties *)

\* On a bus that does not change, searching until a search finds nothing
\* (the loop of DallasTemperature.begin) enumerates the devices: none is missed,
\* and none is returned that is not there.
EnumeratesAll ==
    /\ steady => found \subseteq present
    /\ steady /\ result = "not found" => found = present

\* ... and none is returned twice.
NoneTwice ==
    [][steady /\ result' = "found" /\ result # "found" => ROM_NO' \notin found]_oneWireVars

\* Devices may come and go in the middle of a search: an address that search
\* returns is still that of one device which was on the bus at its start and
\* listened to the end, never a mixture of two, unless the bus is shorted.
NoMixedAddress ==
    [][result' = "found" /\ id_bit_number # 0 /\ ~shorted => ROM_NO' \in listening]_oneWireVars
=============================================================================
