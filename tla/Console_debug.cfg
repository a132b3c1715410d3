SPECIFICATION SpecDebug
CONSTANTS
  CPUs = {c0, c1}
  Locks = {"cons", "ptable"}
  Procs = {p, q}
  Readers = {p}
  Writers = {q}
  Killers = {}
  Killable = {}
  BootCpu = c0
  DEBUG = TRUE
  Keys = {"a", "nl"}
  Counts = {2}
  INPUT_BUF = 2
  UINT = 4
VIEW ConsoleView
INVARIANT NoCircularWait
