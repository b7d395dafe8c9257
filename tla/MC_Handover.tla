---------------------------- MODULE MC_Handover ----------------------------
EXTENDS Handover

\* Reserved, conventional and ACPI memory, and a type setup_e820_map
\* skips (EfiPersistentMemory).
MC_Types == {0, 7, 9, 14}
====
