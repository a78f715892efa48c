------------------------------ MODULE FormIds ------------------------------
(***************************************************************************)
(* Raw FormIDs (types.rs).  The 32 bits are a file index (the top byte)    *)
(* and the 24 bits below it; under the light sentinel byte these split     *)
(* into a slot and an object ID of their own.                              *)
(***************************************************************************)
EXTENDS Integers

CONSTANTS
    EslFile,      \* the file index reserved for light plugins (0xFE)
    EslObjects    \* object IDs per light slot (0x1000)

ASSUME FormIdAssumption == EslFile \in Nat /\ EslObjects \in Nat \ {0}

FormId(file, object) == [file |-> file, object |-> object]

IsNull(form) == form.file = 0 /\ form.object = 0

EslSlot(form)   == form.object \div EslObjects
EslObject(form) == form.object % EslObjects
=============================================================================
