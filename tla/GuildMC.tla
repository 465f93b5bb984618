------------------------------ MODULE GuildMC ------------------------------
EXTENDS Guild, TLC
\* UnionLevelItem: a guild of the first level takes one member, of the second two
Lim == <<1, 2>>
Vice == <<1, 1>>
\* a single level of two members
LimOne == <<2>>
ViceOne == <<1>>
Symm == Permutations(Users)
============================================================================
