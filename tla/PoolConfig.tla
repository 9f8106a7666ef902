----------------------------- MODULE PoolConfig -----------------------------
(***************************************************************************)
(* The configuration: NewConfig applies the With* options in order, and    *)
(* NewPool cuts the handoff queue into shards.  An int has Width bits.     *)
(***************************************************************************)
EXTENDS Integers, FiniteSetsExt

CONSTANTS
  Width,
  Defaults,              \* the default of every field below
  Sizes, Wants, Numbers, \* arguments of the options
  Procs,                 \* values of GOMAXPROCS
  MinShardableQueueSize, MaxAutoShards

\* The fields an option sets to positive values only, by the same test.
Positive == {"cleanPeriod", "workerNumCapacity", "statsSamplePeriod",
             "statsWindowSize", "scalerPeriod", "zeroConsumeScaleInterval",
             "maxZeroConsumeScaleStep"}

VARIABLE config
configVars == <<config>>

\* The value of x in Width bits.
Wrap(x) == ((x + 2^(Width - 1)) % 2^Width) - 2^(Width - 1)

ConfigInit == config = Defaults

SetPositive(field, n) ==
  config' = IF n > 0 THEN [config EXCEPT ![field] = n] ELSE config

\* In percent.
WithBacklogDecayFactor(n) ==
  config' = IF n >= 0 /\ n <= 100 THEN [config EXCEPT !.backlogDecayFactor = n]
            ELSE config

WithTaskQueueShards(n) == config' = [config EXCEPT !.taskQueueShards = n]

ConfigNext ==
  \/ \E field \in Positive, n \in Numbers : SetPositive(field, n)
  \/ \E n \in Sizes : SetPositive("taskQueueSize", n)
  \/ \E n \in Wants : WithTaskQueueShards(n)
  \/ \E n \in Numbers : WithBacklogDecayFactor(n)

ConfigSpec == ConfigInit /\ [][ConfigNext]_configVars

----------------------------------------------------------------------------
(* NewPool. *)

Want(c, procs) ==
  IF c.taskQueueShards > 0 THEN c.taskQueueShards
  ELSE IF c.taskQueueSize < MinShardableQueueSize THEN 1
  ELSE IF procs > MaxAutoShards THEN MaxAutoShards ELSE procs

\* shards after n rounds of the doubling loop; 0 after Width rounds, for ever.
Doubled(n) == IF n >= Width THEN 0 ELSE Wrap(2^n)

\* The rounds after which the doubling loop is left, if it ever is.
Rounds(want) == {n \in 0 .. Width : Doubled(n) >= want}


\* The doubling loop up to want, then the halving loop down to the size.
resolveTaskQueueShards(c, procs) ==
  LET up == Min(Rounds(Want(c, procs)))
      fits == {n \in 0 .. up : n = 0 \/ Doubled(n) <= c.taskQueueSize}
  IN Doubled(Max(fits))

perShardCap(c, procs) ==
  LET shards == resolveTaskQueueShards(c, procs)
      slots == Wrap(c.taskQueueSize + shards - 1) \div shards
  IN IF slots < 1 THEN 1 ELSE slots

\* No channel can have more slots, so no pool is made of a larger size.
MaxSize == 2^(Width - 2)

\* The shards are as the code's comments promise: a power of two, so that the
\* mask of nextShard reaches every shard and no other index, each with a slot,
\* together with at least the configured size and less than a slot per shard
\* more, as many as asked for and at most twice that, or as many as fit.
HandoffSound(procs) ==
  LET want == Want(config, procs)
      shards == resolveTaskQueueShards(config, procs)
      slots == perShardCap(config, procs)
  IN /\ \E n \in 0 .. Width : shards = 2^n
     /\ shards <= config.taskQueueSize /\ slots >= 1
     /\ shards * slots >= config.taskQueueSize
     /\ shards * slots < config.taskQueueSize + shards
     /\ shards < 2 * want
     /\ shards >= want \/ 2 * shards > config.taskQueueSize

=============================================================================
