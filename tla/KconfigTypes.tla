---- MODULE KconfigTypes ----
(* The types of the symbols of support/kconfig. *)
CONSTANT SymType    \* the type of every symbol, constants included

BooleanTypes == {"bool", "tristate"}
IsBoolean(s) == SymType[s] \in BooleanTypes
HexPrefix(v) == CASE v = "10" -> "0x10" [] v = "9" -> "0x9" [] OTHER -> v
====
