---------------------------- MODULE MCInputLine ----------------------------
\* Module InputLine for TLC.
EXTENDS InputLine

MCHistories == {<<>>, <<<<"s">>>>}
MCOffered == {<<"/", "h">>, <<"/", "s", "t">>, Quit}
\* Short, long, and with the reference of a block.
MCPastes == {<<"y">>, <<"y", "\r", "\n", "z">>, Placeholder(1)}
=============================================================================
