---------------------------- MODULE MCContainers ----------------------------
(***************************************************************************)
(* Map with few keys and several objects; String8; BitMap.  A behaviour is  *)
(* one of one of them, the part chosen at the start.                       *)
(***************************************************************************)
EXTENDS String8, TLC

CONSTANTS MaxKey, MapKeys, Maps, Values, Absent, MaxData, RefMod, MaxSerial,
          BitMaps, Indices, Sizes, DefaultSize, ByteBits, WordBytes, CapacityMod

VARIABLES part,
          serial, datas, mRBtree, pc, op, it, crossed, misused, dict,
          map, bitOverrun

mapVars == <<serial, datas, mRBtree, pc, op, it, crossed, misused, dict>>
bitVars == <<map, bitOverrun>>
allVars == <<part, mapVars, strVars, bitVars>>

M == INSTANCE Map WITH heap <- datas
BT == INSTANCE BitMap WITH overrun <- bitOverrun

AllInit == /\ part \in {"Map", "String8", "BitMap"}
           /\ M!MapInit /\ (serial \/ part = "Map")
           /\ StrInit /\ BT!BitInit

AllNext == /\ UNCHANGED part
           /\ \/ part = "Map" /\ M!MapNext /\ UNCHANGED <<strVars, bitVars>>
              \/ part = "String8" /\ StrNext /\ UNCHANGED <<mapVars, bitVars>>
              \/ part = "BitMap" /\ BT!BitNext /\ UNCHANGED <<mapVars, strVars>>

AllSpec == AllInit /\ [][AllNext]_allVars

\* The Maps are interchangeable, and so are the strings; the properties are
\* safety properties.
Symmetry == Permutations(Maps) \cup Permutations(Strings)

\* A short text and one that ends as the short one.
TwoTexts == {<<1>>, <<2, 1, 1>>}

ASSUME MapAssumption == M!MapAssumption

\* The searches of String8 do not depend on the state.
ASSUME SearchesAreRight == SearchesFind

\* Map: shared trees are counted and kept, and sharing is invisible.
MapsSound == M!MapsSound
MapsAreDictionaries == M!MapsAreDictionaries
\* BitMap: a bit is where it was put.
BitsSound == BT!BitsSound
=============================================================================
