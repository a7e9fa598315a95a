SPECIFICATION Spec
CONSTANTS
    e1 = e1
    e2 = e2
    e3 = e3
    Evaluations = {e1, e2, e3}
    Behaviours <- SpinningGuest
    Workers = 2
    Timeout = 2
PROPERTIES IsolatedDeadline
CHECK_DEADLOCK FALSE
