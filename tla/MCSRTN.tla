------------------------------- MODULE MCSRTN -------------------------------
EXTENDS SRTN

MCBlockSize == [m \in Order |-> 2^m]

\* Sizes fill half of the memory or all of it.
Prompt ==
  [arrival : {<<1, 1, 1>>, <<1, 1, 2>>, <<1, 2, 3>>},
   run : {<<3, 1, 1>>, <<3, 1, 2>>, <<3, 2, 1>>, <<1, 2, 1>>, <<1, 3, 1>>},
   size : {<<1, 1, 1>>, <<1, 1, 2>>, <<2, 1, 1>>},
   priority : {<<0, 0, 0>>}, quantum : {0}, prompt : {TRUE}]

Late ==
  [arrival : {<<1, 1, 2>>}, run : {<<3, 1, 1>>}, size : {<<1, 1, 2>>},
   priority : {<<0, 0, 0>>}, quantum : {0}, prompt : {FALSE}]

MCJobs == Prompt \cup Late
=============================================================================
