------------------------------- MODULE MCHPF -------------------------------
EXTENDS HPF

MCBlockSize == [m \in Order |-> 2^m]

\* Four blocks of memory.  Some arrivals fall into the second in which another
\* process ends, some processes wait for memory, alone or behind each other.
Prompt ==
  [arrival : {<<1, 1, 2, 2>>, <<1, 2, 3, 3>>},
   run : {<<1, 1, 2, 1>>, <<2, 1, 1, 1>>},
   priority : {<<0, 1, 1, 1>>, <<2, 1, 1, 0>>},
   size : {<<2, 1, 2, 1>>, <<2, 2, 4, 1>>, <<4, 2, 2, 1>>}, quantum : {0}, prompt : {TRUE}]

\* Two processes at once and one later; the fourth does not arrive in time.
Late ==
  [arrival : {<<4, 4, 5, 9>>}, run : {<<1, 1, 1, 1>>}, priority : {<<1, 1, 0, 0>>},
   size : {<<1, 4, 3, 1>>}, quantum : {0}, prompt : {FALSE}]

MCJobs == Prompt \cup Late
=============================================================================
