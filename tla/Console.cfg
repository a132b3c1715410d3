SPECIFICATION Spec
CONSTANTS
  CPUs = {c0, c1}
  Locks = {"cons", "ptable"}
  Procs = {p, q}
  Readers = {p}
  Writers = {q}
  Killers = {q}
  Killable = {p}
  BootCpu = c0
  DEBUG = FALSE
  Keys = {"a", "eof", "bs", "kill", "dump"}
  Counts = {2}
  INPUT_BUF = 2
  UINT = 4
VIEW ConsoleView
INVARIANTS NoPanic Exclusion SleepIsWarranted
PROPERTY LineEditing
