-------------------------------- MODULE MCRR --------------------------------
EXTENDS RR

MCBlockSize == [m \in Order |-> 2^m]

Job(arrivals, runs, sizes, q) ==
  [arrival : arrivals, run : runs, size : sizes,
   priority : {<<0, 0, 0>>}, quantum : {q}, prompt : {TRUE}]

\* Sizes fill half of the memory or all of it.
AnySize == {<<1, 1, 1>>, <<1, 1, 2>>, <<2, 1, 1>>}

\* Quanta that end early, arrivals in the second a lonely quantum ends, and
\* processes that are stopped more than once.
Prompt ==
  Job({<<1, 1, 1>>, <<1, 1, 2>>, <<1, 2, 3>>}, {<<3, 1, 2>>, <<3, 2, 1>>}, AnySize, 2)
  \cup Job({<<1, 3, 3>>}, {<<3, 1, 2>>}, AnySize, 2)
  \cup Job({<<1, 1, 1>>, <<1, 1, 2>>}, {<<1, 4, 2>>}, AnySize, 1)

\* Arrives late enough to keep the seconds it can be late by few.
Late ==
  [arrival : {<<3, 3, 4>>}, run : {<<2, 1, 1>>}, size : {<<1, 1, 2>>},
   priority : {<<0, 0, 0>>}, quantum : {1}, prompt : {FALSE}]

MCJobs == Prompt \cup Late
=============================================================================
