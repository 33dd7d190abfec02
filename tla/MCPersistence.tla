--------------------------- MODULE MCPersistence ---------------------------
(* The three fsync policies, with and without no-appendfsync-on-rewrite and *)
(* save points, and a server that starts without the append only file.      *)
(* Each has a budget of writes, rewrites, saves, CONFIG SETs, errors, ends. *)
EXTENDS Persistence

Conf(on, fsync, nofsync, saves) ==
    [aof |-> on, fsync |-> fsync, nofsync |-> nofsync, saves |-> saves]

Left(writes, rewrites, saves, config, errors, ends) ==
    [writes |-> writes, rewrites |-> rewrites, saves |-> saves, config |-> config,
     errors |-> errors, ends |-> ends]

With(conf0, budget) == [conf |-> conf0, left |-> budget]

Some ==
    {With(Conf(TRUE, "always", FALSE, FALSE), Left(3, 1, 0, 0, 1, 1)),
     With(Conf(TRUE, "everysec", FALSE, FALSE), Left(2, 1, 0, 0, 1, 1)),
     With(Conf(TRUE, "everysec", TRUE, TRUE), Left(2, 1, 1, 0, 1, 1)),
     With(Conf(TRUE, "always", TRUE, TRUE), Left(2, 1, 0, 0, 0, 1)),
     With(Conf(TRUE, "no", FALSE, FALSE), Left(2, 1, 1, 2, 1, 1)),
     With(Conf(TRUE, "everysec", FALSE, FALSE), Left(2, 0, 0, 1, 1, 1)),
     With(Conf(FALSE, "always", FALSE, TRUE), Left(2, 1, 1, 2, 0, 1))}

Quiet == {With(Conf(TRUE, "everysec", FALSE, FALSE), Left(2, 0, 0, 0, 0, 0))}
============================================================================
