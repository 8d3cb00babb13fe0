--------------------------- MODULE ContractNames ---------------------------
(***************************************************************************)
(* The identifiers that the contract backend builds by appending to the    *)
(* name of a field.                                                        *)
(*                                                                         *)
(* An identifier is the sequence of its parts.  The parts that the backend *)
(* appends are one element each, and may occur in the identifiers of the   *)
(* user as well: the name x_type_arg0 is <<"x", "_type", "_arg0">>.        *)
(***************************************************************************)
EXTENDS Sequences, Integers

\* contract_field_type_descriptor_name
FieldTypeName(field) == field \o <<"_type">>

\* A type has at most two arguments, a map.
ArgumentParts == <<"_arg0", "_arg1">>

\* Mutation of ArgumentName: the index is not part of the name.
ArgumentNameWithoutIndex(descriptor, index) == descriptor \o <<"_arg0">>

\* contract_type_argument_descriptor_name, with the index counted from one.
ArgumentName(descriptor, index) == descriptor \o <<ArgumentParts[index]>>

\* contract_type_arguments_name
ArgumentsName(descriptor) == descriptor \o <<"_arguments">>

\* contract_enum_values_name
EnumValuesName(descriptor) == descriptor \o <<"_enum_values">>
=============================================================================
