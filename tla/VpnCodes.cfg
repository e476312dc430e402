\* The 2FA option is turned off while a login is being made, nothing fails.
CONSTANTS
    Users = {u1}
    Workers = {w1, w2}
    Flaky = {}
    MaxGrants = 3
    MaxDevices = 3
    MaxRequests = 3
SPECIFICATION Spec
INVARIANT LoginsNeedCodes
CHECK_DEADLOCK FALSE
