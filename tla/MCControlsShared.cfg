SPECIFICATION Spec
CONSTANTS
  HostActions <- SharedActions
  Widths = {640}
  Columns = {639}
INVARIANTS HeldIsPressed
