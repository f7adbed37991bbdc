---------------------------- MODULE MCShadowMap ----------------------------
EXTENDS ShadowMap

\* The first and last page of every region the configuration can add, the
\* pages next to them, and some in between.
ProbesDef ==
    UNION {{p - 1, p, p + 1} : p \in {1, 160, 192, 198, 200, 204, 239, 256, 4096, 32768, 786432}}

RomSizesDef == {0, 1, 15, 16, 17, 24}
VgaSizesDef == 0..12
=============================================================================
