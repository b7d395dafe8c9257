------------------------------- MODULE MC_Gpt -------------------------------
EXTENDS Gpt

\* gpt_bin lengths: a refused one (0 and below -1), the rest (-1), and
\* fixed sizes small and large against disks of 8 and 9 MiB.
MC_PartLengths == {-2, -1, 0, 1, 2, 5}
\* A single partition that takes the rest, or a refused length.
MC_FewLengths == {-1, 0}
====
