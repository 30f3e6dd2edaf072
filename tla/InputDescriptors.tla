--------------------------- MODULE InputDescriptors ---------------------------
(***************************************************************************)
(* Which signals a Stream block of the capture module accepts, and how it  *)
(* scales the samples of an analog one: input_descriptors_validator.cpp    *)
(* and the configure functions of stream_fb.cpp.                           *)
(*                                                                         *)
(* Of a data descriptor only what the code tests is kept; "Float" stands   *)
(* for every sample type but Struct, Int16 and Int32, and "other" for a    *)
(* post scaling whose input type is not one of the last two.               *)
(***************************************************************************)
EXTENDS Integers

SampleTypes == {"Struct", "Int16", "Int32", "Float"}

\* openDAQ: the value of a signal with a post scaling is a floating point one.
Descriptors ==
  {d \in [sampleType : SampleTypes,
          canStruct : BOOLEAN,    \* the fields are those of canStructureReference
          scalar : BOOLEAN,       \* there are no dimensions
          explicitRule : BOOLEAN, \* the rule is assigned and is Explicit
          range : BOOLEAN,        \* the value range has both its ends
          postScaling : {"none", "Int16", "Int32", "other"}] :
     /\ d.canStruct => d.sampleType = "Struct"
     /\ d.postScaling # "none" => d.sampleType = "Float"}

HasCorrectSampleType(type) == type \in {"Int16", "Int32"}

HasCorrectPostScaling(d) == HasCorrectSampleType(d.postScaling)

ValidateStructureSampleType(d) == d.sampleType = "Struct" /\ d.canStruct

ValidateAnalogSampleType(d) ==
  /\ d.sampleType # "Struct"
  /\ d.scalar
  /\ d.explicitRule
  /\ HasCorrectPostScaling(d) \/ HasCorrectSampleType(d.sampleType) \/ d.range

\* The exception that a wrong sample type makes is caught by configure, with
\* the same outcome as FALSE.
ValidateInputDescriptor(d, payloadType) ==
  CASE payloadType \in {"can", "canFd"} -> ValidateStructureSampleType(d)
    [] payloadType = "analog" -> ValidateAnalogSampleType(d)
    [] OTHER -> FALSE

\* What an analog message says of its samples: their width, and which factor
\* and offset give the value.  With "range" the block scales the samples itself.
Scalings == [sampleDt : {16, 32}, scale : {"none", "postScaling", "unit", "range"}]

SampleDt(type) == IF type = "Int16" THEN 16 ELSE 32

ConfigureScaledAnalogSignal(d) == [sampleDt |-> SampleDt(d.postScaling), scale |-> "postScaling"]

ConfigureMinMaxAnalogSignal(d) ==
  IF HasCorrectSampleType(d.sampleType)
  THEN [sampleDt |-> SampleDt(d.sampleType), scale |-> "unit"]
  ELSE [sampleDt |-> 32, scale |-> "range"]

AnalogScaling(d) ==
  IF HasCorrectPostScaling(d) THEN ConfigureScaledAnalogSignal(d) ELSE ConfigureMinMaxAnalogSignal(d)
===============================================================================
